---- MODULE Spec2Model ----
(***************************************************************************)
(* Deta Dash (src/src/App.js): dataset ingestion, descriptive statistics,  *)
(* validation of the AI-produced chart configuration, table                *)
(* materialisation and the analysis run of the App component.              *)
(*                                                                         *)
(* JavaScript Numbers are IEEE-754 binary64 values.  They are modelled     *)
(* exactly: a finite Number is sign * m * 2^e with a 53-bit significand m  *)
(* held as a little-endian sequence of 15-bit limbs (TLC's integers are    *)
(* 32 bits wide), and every arithmetic operation rounds to nearest, ties   *)
(* to even.  Magnitudes in the model stay far away from overflow and from  *)
(* the subnormal range, which are therefore not modelled.                  *)
(***************************************************************************)
EXTENDS Integers, Sequences, FiniteSets, TLC

\* ------------------------------------------------------------------------
\* Natural numbers of arbitrary size (little-endian limbs, no high zero limb)
\* ------------------------------------------------------------------------
Base == 2^15

RECURSIVE BNorm(_)
BNorm(x) ==
    IF x = <<>> THEN <<>>
    ELSE IF x[Len(x)] = 0 THEN BNorm(SubSeq(x, 1, Len(x) - 1)) ELSE x

RECURSIVE BFromInt(_)
BFromInt(n) == IF n = 0 THEN <<>> ELSE <<n % Base>> \o BFromInt(n \div Base)

RECURSIVE BToInt(_)
BToInt(x) == IF x = <<>> THEN 0 ELSE x[1] + Base * BToInt(Tail(x))

RECURSIVE BAddC(_, _, _)
BAddC(x, y, c) ==
    IF x = <<>> /\ y = <<>> THEN (IF c = 0 THEN <<>> ELSE <<c>>)
    ELSE LET a == IF x = <<>> THEN 0 ELSE x[1]
             b == IF y = <<>> THEN 0 ELSE y[1]
             s == a + b + c
         IN  <<s % Base>> \o BAddC(IF x = <<>> THEN <<>> ELSE Tail(x),
                                   IF y = <<>> THEN <<>> ELSE Tail(y),
                                   s \div Base)

BAdd(x, y) == BAddC(x, y, 0)

RECURSIVE BSubB(_, _, _)
BSubB(x, y, b) ==
    IF x = <<>> THEN <<>>
    ELSE LET d == x[1] - (IF y = <<>> THEN 0 ELSE y[1]) - b
         IN  <<IF d < 0 THEN d + Base ELSE d>>
             \o BSubB(Tail(x), IF y = <<>> THEN <<>> ELSE Tail(y),
                      IF d < 0 THEN 1 ELSE 0)

\* x - y for x >= y
BSub(x, y) == BNorm(BSubB(x, y, 0))

RECURSIVE BCmpFrom(_, _, _)
BCmpFrom(x, y, i) ==
    IF i = 0 THEN 0
    ELSE IF x[i] < y[i] THEN -1
    ELSE IF x[i] > y[i] THEN 1
    ELSE BCmpFrom(x, y, i - 1)

\* -1, 0, 1 as x <, =, > y
BCmp(x, y) ==
    IF Len(x) < Len(y) THEN -1
    ELSE IF Len(x) > Len(y) THEN 1
    ELSE BCmpFrom(x, y, Len(x))

RECURSIVE BMulSmallC(_, _, _)
BMulSmallC(x, k, c) ==
    IF x = <<>> THEN (IF c = 0 THEN <<>> ELSE <<c>>)
    ELSE LET p == x[1] * k + c
         IN  <<p % Base>> \o BMulSmallC(Tail(x), k, p \div Base)

\* x * k for 0 <= k < Base
BMulSmall(x, k) == BNorm(BMulSmallC(x, k, 0))

RECURSIVE BMul(_, _)
BMul(x, y) ==
    IF y = <<>> \/ x = <<>> THEN <<>>
    ELSE BNorm(BAdd(BMulSmall(x, y[1]), <<0>> \o BMul(x, Tail(y))))

RECURSIVE BDivSmallRaw(_, _)
BDivSmallRaw(x, d) ==
    IF x = <<>> THEN [q |-> <<>>, r |-> 0]
    ELSE LET hi  == BDivSmallRaw(Tail(x), d)
             cur == hi.r * Base + x[1]
         IN  [q |-> <<cur \div d>> \o hi.q, r |-> cur % d]

\* quotient and remainder of x by d, 0 < d <= Base
BDivSmall(x, d) ==
    LET qr == BDivSmallRaw(x, d) IN [q |-> BNorm(qr.q), r |-> qr.r]

RECURSIVE IntBitLen(_)
IntBitLen(n) == IF n = 0 THEN 0 ELSE 1 + IntBitLen(n \div 2)

BBitLen(x) == IF x = <<>> THEN 0 ELSE 15 * (Len(x) - 1) + IntBitLen(x[Len(x)])

BIsOdd(x) == x # <<>> /\ x[1] % 2 = 1

\* x * 2^k
BShl(x, k) ==
    IF x = <<>> THEN <<>>
    ELSE [i \in 1..(k \div 15) |-> 0] \o BMulSmall(x, 2^(k % 15))

\* floor(x / 2^k)
BShr(x, k) ==
    LET drop == k \div 15
    IN  IF drop >= Len(x) THEN <<>>
        ELSE BDivSmall(SubSeq(x, drop + 1, Len(x)), 2^(k % 15)).q

\* the root so far with the bit added when its square does not exceed n
BISqrtPick(n, cur, cand) == IF BCmp(BMul(cand, cand), n) <= 0 THEN cand ELSE cur

RECURSIVE BISqrtFrom(_, _, _)
\* the bits of the root from the given one down, cur the bits above it
BISqrtFrom(n, bit, cur) ==
    IF bit < 0 THEN cur
    ELSE IF cur = <<>>
    THEN BISqrtFrom(n, bit - 1, BISqrtPick(n, <<>>, BShl(<<1>>, bit)))
    ELSE BISqrtFrom(n, bit - 1, BISqrtPick(n, cur, BAdd(cur, BShl(<<1>>, bit))))

\* floor(sqrt(n))
BISqrt(n) == BISqrtFrom(n, (BBitLen(n) + 1) \div 2, <<>>)

\* ------------------------------------------------------------------------
\* JavaScript Numbers (binary64)
\* ------------------------------------------------------------------------
NaN == [cls |-> "nan", neg |-> FALSE, m |-> <<>>, e |-> 0]

Inf(neg) == [cls |-> "inf", neg |-> neg, m |-> <<>>, e |-> 0]

FZero(neg) == [cls |-> "num", neg |-> neg, m |-> <<>>, e |-> 0]

FIsZero(a) == a.cls = "num" /\ a.m = <<>>

\* a finite Number of significand q, which has 53 or, after a carry, 54 bits
FNormal(neg, q, e) ==
    IF BBitLen(q) = 54
    THEN [cls |-> "num", neg |-> neg, m |-> BShr(q, 1), e |-> e + 1]
    ELSE [cls |-> "num", neg |-> neg, m |-> q, e |-> e]

\* round to nearest, ties to even: c compares the part cut off with one half
FRoundsUp(c, q, sticky) == c > 0 \/ (c = 0 /\ (sticky \/ BIsOdd(q)))

\* n cut by sh bits to the 53-bit quotient q
FRoundCut(neg, n, e, sticky, sh, q) ==
    FNormal(neg,
            IF FRoundsUp(BCmp(BSub(n, BShl(q, sh)), BShl(<<1>>, sh - 1)), q, sticky)
            THEN BAdd(q, <<1>>) ELSE q,
            e + sh)

\* n has len bits
FRoundLen(neg, n, e, sticky, len) ==
    IF len <= 53
    THEN [cls |-> "num", neg |-> neg, m |-> BShl(n, 53 - len), e |-> e - (53 - len)]
    ELSE FRoundCut(neg, n, e, sticky, len - 53, BShr(n, len - 53))

\* The Number nearest to (-1)^neg * (n + f) * 2^e, where 0 <= f < 1 and sticky
\* says f > 0 (then n has at least 55 bits): round to nearest, ties to even.
FRound(neg, n, e, sticky) ==
    IF n = <<>> THEN FZero(neg) ELSE FRoundLen(neg, n, e, sticky, BBitLen(n))

\* an integer of the model as a Number
FromInt(i) == FRound(i < 0, BFromInt(IF i < 0 THEN -i ELSE i), 0, FALSE)

FNeg(a) == [a EXCEPT !.neg = ~a.neg]

\* -1, 0, 1 as |a| <, =, > |b| for finite a, b
FCmpMag(a, b) ==
    IF a.m = <<>> THEN (IF b.m = <<>> THEN 0 ELSE -1)
    ELSE IF b.m = <<>> THEN 1
    ELSE IF a.e < b.e THEN -1
    ELSE IF a.e > b.e THEN 1
    ELSE BCmp(a.m, b.m)

\* the sign of an infinity, 0 for a finite Number
FInfSign(a) == IF a.cls = "inf" THEN (IF a.neg THEN -1 ELSE 1) ELSE 0

\* -1, 0, 1 as a <, =, > b (neither is NaN)
FCmp(a, b) ==
    IF a.cls = "inf" \/ b.cls = "inf"
    THEN (IF FInfSign(a) < FInfSign(b) THEN -1
          ELSE IF FInfSign(a) > FInfSign(b) THEN 1 ELSE 0)
    ELSE IF FIsZero(a) /\ FIsZero(b) THEN 0
    ELSE IF a.neg /\ ~b.neg THEN -1
    ELSE IF ~a.neg /\ b.neg THEN 1
    ELSE IF a.neg THEN FCmpMag(b, a) ELSE FCmpMag(a, b)

\* the sum of two finite non-zero Numbers whose significands x and y are
\* aligned to the exponent e; c compares x with y
FAddAligned(aneg, bneg, x, y, e, c) ==
    IF aneg = bneg THEN FRound(aneg, BAdd(x, y), e, FALSE)
    ELSE IF c = 0 THEN FZero(FALSE)
    ELSE FRound(IF c > 0 THEN aneg ELSE bneg,
                IF c > 0 THEN BSub(x, y) ELSE BSub(y, x), e, FALSE)

\* the sum of two finite non-zero Numbers, e the smaller exponent
FAddAt(a, b, e) ==
    FAddAligned(a.neg, b.neg, BShl(a.m, a.e - e), BShl(b.m, b.e - e), e,
                BCmp(BShl(a.m, a.e - e), BShl(b.m, b.e - e)))

\* a + b
FAdd(a, b) ==
    IF a.cls = "nan" \/ b.cls = "nan" THEN NaN
    ELSE IF a.cls = "inf" /\ b.cls = "inf" THEN (IF a.neg = b.neg THEN a ELSE NaN)
    ELSE IF a.cls = "inf" THEN a
    ELSE IF b.cls = "inf" THEN b
    ELSE IF FIsZero(a) /\ FIsZero(b) THEN FZero(a.neg /\ b.neg)
    ELSE IF FIsZero(a) THEN b
    ELSE IF FIsZero(b) THEN a
    ELSE FAddAt(a, b, IF a.e < b.e THEN a.e ELSE b.e)

\* a - b
FSub(a, b) == FAdd(a, FNeg(b))

\* a * b
FMul(a, b) ==
    IF a.cls = "nan" \/ b.cls = "nan" THEN NaN
    ELSE IF a.cls = "inf" \/ b.cls = "inf"
    THEN (IF FIsZero(a) \/ FIsZero(b) THEN NaN ELSE Inf(a.neg # b.neg))
    ELSE FRound(a.neg # b.neg, BMul(a.m, b.m), a.e + b.e, FALSE)

\* the Number nearest to (-1)^neg * (qr.q + qr.r / k) * 2^e
FQuotient(neg, qr, e) == FRound(neg, qr.q, e, qr.r # 0)

\* a / k for an integer 0 < k < 2^15 (a count of values, or 2)
FDivInt(a, k) ==
    IF a.cls # "num" THEN a
    ELSE FQuotient(a.neg, BDivSmall(BShl(a.m, 30), k), a.e - 30)

\* the Number nearest to sqrt(n) * 2^e, s the integer square root of n
FRoot(n, s, e) == FRound(FALSE, s, e, BMul(s, s) # n)

\* sqrt(m * 2^e) for a significand m shifted by k bits, e - k even
FSqrtShifted(n, e) == FRoot(n, BISqrt(n), e \div 2)

\* Math.sqrt(a)
FSqrt(a) ==
    IF a.cls = "nan" THEN NaN
    ELSE IF FIsZero(a) THEN a
    ELSE IF a.neg THEN NaN
    ELSE IF a.cls = "inf" THEN a
    ELSE IF (a.e - 58) % 2 = 0 THEN FSqrtShifted(BShl(a.m, 58), a.e - 58)
    ELSE FSqrtShifted(BShl(a.m, 59), a.e - 59)

\* the decimal text of a finite Number, as its sign and its number of hundredths
Decimal(neg, cents) == [t |-> "dec", neg |-> neg, cents |-> BToInt(cents)]

\* n / 2^sh to the nearest integer, the larger one on a tie; q is floor(n / 2^sh)
BRoundHalfUp(n, sh, q) ==
    IF BCmp(BSub(n, BShl(q, sh)), BShl(<<1>>, sh - 1)) >= 0 THEN BAdd(q, <<1>>) ELSE q

\* the hundredths of n * 2^e / 100
FHundredths(n, e) == IF e >= 0 THEN BShl(n, e) ELSE BRoundHalfUp(n, -e, BShr(n, -e))

\* Number.prototype.toFixed(2): the decimal text, as its sign and its number of
\* hundredths; the hundredth nearest to the exact value, the larger one on a tie
FToFixed2(a) ==
    IF a.cls = "nan" THEN [t |-> "NaN", neg |-> FALSE, cents |-> 0]
    ELSE IF a.cls = "inf" THEN [t |-> "Infinity", neg |-> a.neg, cents |-> 0]
    ELSE IF FIsZero(a) THEN [t |-> "dec", neg |-> FALSE, cents |-> 0]
    ELSE Decimal(a.neg, FHundredths(BMulSmall(a.m, 100), a.e))

RECURSIVE BDivPow10(_, _)
\* floor(x / 10^f) and whether anything was cut off
BDivPow10(x, f) ==
    IF f = 0 THEN [q |-> x, cut |-> FALSE]
    ELSE LET qr   == BDivSmall(x, 10)
             rest == BDivPow10(qr.q, f - 1)
         IN  [q |-> rest.q, cut |-> rest.cut \/ qr.r # 0]

RECURSIVE BMulPow10(_, _)
BMulPow10(x, g) == IF g = 0 THEN x ELSE BMulPow10(BMulSmall(x, 10), g - 1)

\* the Number nearest to (-1)^neg * (qc.q + a cut-off part) * 2^e
FScaled(neg, qc, e) == FRound(neg, qc.q, e, qc.cut)

\* the Number nearest to (-1)^neg * n * 10^(-f): the value of a decimal literal
FromDecimal(neg, n, f) ==
    IF n = <<>> THEN FZero(neg)
    ELSE IF f <= 0 THEN FRound(neg, BMulPow10(n, -f), 0, FALSE)
    ELSE FScaled(neg, BDivPow10(BShl(n, 60 + 4 * f), f), -(60 + 4 * f))

\* ------------------------------------------------------------------------
\* Values of dataset cells and parseFloat
\* ------------------------------------------------------------------------
\* A cell holds a string (the sequence of its characters), or is absent
\* (undefined), or is null.
Str(chars) == [t |-> "string", s |-> chars]

Undefined == [t |-> "undefined", s |-> <<>>]

Null == [t |-> "null", s |-> <<>>]

Digits == <<"0", "1", "2", "3", "4", "5", "6", "7", "8", "9">>

IsDigit(c) == \E i \in 1..Len(Digits) : Digits[i] = c

DigitVal(c) == (CHOOSE i \in 1..Len(Digits) : Digits[i] = c) - 1

IsWhiteSpace(c) == c \in {" ", "\t", "\n", "\r"}

InfinityLit == <<"I", "n", "f", "i", "n", "i", "t", "y">>

RECURSIVE SkipWhiteSpace(_, _)
SkipWhiteSpace(s, i) ==
    IF i <= Len(s) /\ IsWhiteSpace(s[i]) THEN SkipWhiteSpace(s, i + 1) ELSE i

RECURSIVE DigitsEnd(_, _)
\* the first position from i on that holds no digit
DigitsEnd(s, i) ==
    IF i <= Len(s) /\ IsDigit(s[i]) THEN DigitsEnd(s, i + 1) ELSE i

RECURSIVE ReadDigits(_, _, _)
\* the natural number written by the digits s[i..j-1]
ReadDigits(s, i, j) ==
    IF j <= i THEN <<>>
    ELSE BAdd(BMulSmall(ReadDigits(s, i, j - 1), 10), BFromInt(DigitVal(s[j - 1])))

HasPrefixAt(s, i, lit) ==
    /\ i + Len(lit) - 1 <= Len(s)
    /\ SubSeq(s, i, i + Len(lit) - 1) = lit

\* whether one of the characters is at position i
HasCharAt(s, i, chars) == i <= Len(s) /\ s[i] \in chars

\* the number of fraction digits of a mantissa whose integer digits end at i2
\* and that ends at i3: a dot, if any, is at i2
FractionLen(i2, i3) == IF i3 > i2 THEN i3 - i2 - 1 ELSE 0

\* the digits of the mantissa s[i1..i3-1] as a natural number, the dot left out
Mantissa(s, i1, i2, i3) ==
    BAdd(BMulPow10(ReadDigits(s, i1, i2), FractionLen(i2, i3)), ReadDigits(s, i2 + 1, i3))

\* the exponent whose digits start at e1; none when no digit follows
ExponentDigits(s, neg, e1) ==
    IF neg THEN -BToInt(ReadDigits(s, e1, DigitsEnd(s, e1)))
    ELSE BToInt(ReadDigits(s, e1, DigitsEnd(s, e1)))

\* the exponent part that may start at i3
Exponent(s, i3) ==
    IF HasCharAt(s, i3, {"e", "E"})
    THEN ExponentDigits(s, HasCharAt(s, i3 + 1, {"-"}),
                        IF HasCharAt(s, i3 + 1, {"+", "-"}) THEN i3 + 2 ELSE i3 + 1)
    ELSE 0

\* the literal with integer digits s[i1..i2-1] and a mantissa that ends at i3
DecimalLiteral(s, neg, i1, i2, i3) ==
    IF (i2 - i1) + FractionLen(i2, i3) = 0 THEN NaN
    ELSE FromDecimal(neg, Mantissa(s, i1, i2, i3), FractionLen(i2, i3) - Exponent(s, i3))

\* the literal whose integer digits s[i1..i2-1] may be followed by a fraction
DecimalDigits(s, neg, i1, i2) ==
    DecimalLiteral(s, neg, i1, i2,
                   IF HasCharAt(s, i2, {"."}) THEN DigitsEnd(s, i2 + 1) ELSE i2)

\* the literal that starts at i1, after the sign
UnsignedLiteral(s, neg, i1) ==
    IF HasPrefixAt(s, i1, InfinityLit) THEN Inf(neg)
    ELSE DecimalDigits(s, neg, i1, DigitsEnd(s, i1))

\* the literal that starts at i0, after the white space
SignedLiteral(s, i0) ==
    UnsignedLiteral(s, HasCharAt(s, i0, {"-"}),
                    IF HasCharAt(s, i0, {"+", "-"}) THEN i0 + 1 ELSE i0)

\* parseFloat of a string: leading white space is skipped, the longest prefix
\* that is a decimal literal is converted, anything after it is ignored
ParseFloatChars(s) == SignedLiteral(s, SkipWhiteSpace(s, 1))

\* parseFloat(value): a value that is no string is first turned into its text
\* ("undefined", "null"), which holds no number
parseFloat(v) == IF v.t = "string" THEN ParseFloatChars(v.s) ELSE NaN

isNaN(a) == a.cls = "nan"

\* ------------------------------------------------------------------------
\* Objects: the sequence of <<key, value>> properties in insertion order
\* ------------------------------------------------------------------------
ObjectKeys(o) == [i \in 1..Len(o) |-> o[i][1]]

HasKey(o, k) == \E i \in 1..Len(o) : o[i][1] = k

\* o[k] of a dataset row: undefined for a missing key
Cell(o, k) ==
    IF HasKey(o, k) THEN o[CHOOSE i \in 1..Len(o) : o[i][1] = k][2] ELSE Undefined

\* o[k] = v
SetKey(o, k, v) ==
    IF HasKey(o, k) THEN [i \in 1..Len(o) |-> IF o[i][1] = k THEN <<k, v>> ELSE o[i]]
    ELSE Append(o, <<k, v>>)

\* o[k] of an object that has the key
Prop(o, k) == o[CHOOSE i \in 1..Len(o) : o[i][1] = k][2]

Includes(seq, x) == \E i \in 1..Len(seq) : seq[i] = x

\* ------------------------------------------------------------------------
\* Descriptive statistics and frequency distributions
\* ------------------------------------------------------------------------
DATA_SAMPLE_LIMIT_FOR_CALCS == 1000

\* seq.slice(0, n)
Slice(seq, n) == SubSeq(seq, 1, IF Len(seq) < n THEN Len(seq) ELSE n)

\* mutant: the whole dataset is used
SampleAll(data) == data

\* data.slice(0, DATA_SAMPLE_LIMIT_FOR_CALCS)
Sample(data) == Slice(data, DATA_SAMPLE_LIMIT_FOR_CALCS)

\* mutant: the filter is missing
NumericValuesUnfiltered(sampledData, col) ==
    [i \in 1..Len(sampledData) |-> parseFloat(Cell(sampledData[i], col))]

\* sampledData.map(row => parseFloat(row[col])).filter(val => !isNaN(val))
NumericValues(sampledData, col) ==
    SelectSeq([i \in 1..Len(sampledData) |-> parseFloat(Cell(sampledData[i], col))],
              LAMBDA val : ~isNaN(val))

RECURSIVE SumFrom(_, _, _)
\* values.reduce((a, b) => a + b, 0), from the i-th value on with a so far
SumFrom(values, i, a) ==
    IF i > Len(values) THEN a
    ELSE IF a.cls = "nan" THEN NaN
    ELSE SumFrom(values, i + 1, FAdd(a, values[i]))

\* Math.pow(d, 2)
Square(d) == FMul(d, d)

RECURSIVE SquaresFrom(_, _, _, _)
\* values.reduce((sum, val) => sum + Math.pow(val - mean, 2), 0)
SquaresFrom(values, mean, i, sum) ==
    IF i > Len(values) THEN sum
    ELSE IF sum.cls = "nan" THEN NaN
    ELSE SquaresFrom(values, mean, i + 1, FAdd(sum, Square(FSub(values[i], mean))))

\* v put into an ascending sequence, after the elements that are not greater
InsertSorted(sorted, v) ==
    LET k == Cardinality({i \in 1..Len(sorted) : FCmp(sorted[i], v) <= 0})
    IN  SubSeq(sorted, 1, k) \o <<v>> \o SubSeq(sorted, k + 1, Len(sorted))

RECURSIVE SortAscending(_)
\* [...values].sort((a, b) => a - b)
SortAscending(values) ==
    IF values = <<>> THEN <<>>
    ELSE InsertSorted(SortAscending(SubSeq(values, 1, Len(values) - 1)),
                      values[Len(values)])

\* Math.min(...values)
MathMin(values) ==
    values[CHOOSE i \in 1..Len(values) :
               \A j \in 1..Len(values) : FCmp(values[i], values[j]) <= 0]

\* Math.max(...values)
MathMax(values) ==
    values[CHOOSE i \in 1..Len(values) :
               \A j \in 1..Len(values) : FCmp(values[i], values[j]) >= 0]

\* sorted[mid] for an odd count, (sorted[mid - 1] + sorted[mid]) / 2 for an even
\* one, mid = Math.floor(sorted.length / 2) counted from 0
Median(sorted) ==
    IF Len(sorted) % 2 = 0
    THEN FDivInt(FAdd(sorted[Len(sorted) \div 2], sorted[Len(sorted) \div 2 + 1]), 2)
    ELSE sorted[Len(sorted) \div 2 + 1]

\* Math.sqrt(variance), the variance over all the values
StdDev(values, mean) ==
    FSqrt(FDivInt(SquaresFrom(values, mean, 1, FZero(FALSE)), Len(values)))

\* the entry of a column with the given values and mean
StatisticsEntry(values, mean) ==
    [mean   |-> FToFixed2(mean),
     median |-> FToFixed2(Median(SortAscending(values))),
     min    |-> FToFixed2(MathMin(values)),
     max    |-> FToFixed2(MathMax(values)),
     stdDev |-> FToFixed2(StdDev(values, mean)),
     count  |-> Len(values)]

\* the entry of one column that has values
ColumnStatistics(values) ==
    StatisticsEntry(values, FDivInt(SumFrom(values, 1, FZero(FALSE)), Len(values)))

\* stats after the column col, of which values are the numbers
WithColumn(stats, col, values) ==
    IF Len(values) > 0 THEN SetKey(stats, col, ColumnStatistics(values)) ELSE stats

RECURSIVE StatsFrom(_, _, _, _)
\* numericalCols.forEach(col => ...), from the i-th column on
StatsFrom(sampledData, numericalCols, i, stats) ==
    IF i > Len(numericalCols) THEN stats
    ELSE StatsFrom(sampledData, numericalCols, i + 1,
                   WithColumn(stats, numericalCols[i],
                              NumericValues(sampledData, numericalCols[i])))

getDescriptiveStatistics(data, numericalCols) ==
    StatsFrom(Sample(data), numericalCols, 1, <<>>)

\* the text of the property names an object inherits from Object.prototype
ProtoKey == <<"_", "_", "p", "r", "o", "t", "o", "_", "_">>

ObjectPrototypeKeys ==
    { ProtoKey,
      <<"c", "o", "n", "s", "t", "r", "u", "c", "t", "o", "r">>,
      <<"t", "o", "S", "t", "r", "i", "n", "g">>,
      <<"v", "a", "l", "u", "e", "O", "f">> }

\* the value of a property of counts: the number n, or the text of an
\* inherited value followed by n times the digit 1
Count(n) == [t |-> "number", n |-> n]

InheritedText(n) == [t |-> "string", n |-> n]

\* the values of the column that are counted, in the order of the rows:
\* value !== undefined && value !== null && value !== ''
CountedValues(sampledData, col) ==
    SelectSeq([i \in 1..Len(sampledData) |-> Cell(sampledData[i], col)],
              LAMBDA value : value # Undefined /\ value # Null /\ value # Str(<<>>))

\* counts[value] || 0, where counts is an object literal: an own property, or
\* else the property it inherits
CountOr0(counts, key) ==
    IF key \in DOMAIN counts THEN counts[key]
    ELSE IF key \in ObjectPrototypeKeys THEN InheritedText(0)
    ELSE Count(0)

\* x + 1: the sum of numbers, or text with the digit 1 appended
PlusOne(x) == [x EXCEPT !.n = @ + 1]

\* counts[key] = v: the assignment to __proto__ of a value that is no object
\* changes nothing
Assign(counts, key, v) ==
    IF key = ProtoKey THEN counts
    ELSE [k \in DOMAIN counts \cup {key} |-> IF k = key THEN v ELSE counts[k]]

RECURSIVE CountsFrom(_, _, _)
\* sampledData.forEach(row => ... counts[value] = (counts[value] || 0) + 1),
\* from the i-th counted value on
CountsFrom(values, i, counts) ==
    IF i > Len(values) THEN counts
    ELSE CountsFrom(values, i + 1,
                    Assign(counts, values[i].s, PlusOne(CountOr0(counts, values[i].s))))

\* counts of one column, an object literal with no properties at first
Counts(sampledData, col) == CountsFrom(CountedValues(sampledData, col), 1, <<>>)

RECURSIVE DistributionsFrom(_, _, _, _)
\* categoricalCols.forEach(col => ... distributions[col] = counts)
DistributionsFrom(sampledData, categoricalCols, i, distributions) ==
    IF i > Len(categoricalCols) THEN distributions
    ELSE DistributionsFrom(sampledData, categoricalCols, i + 1,
            SetKey(distributions, categoricalCols[i],
                   Counts(sampledData, categoricalCols[i])))

getFrequencyDistribution(data, categoricalCols) ==
    DistributionsFrom(Sample(data), categoricalCols, 1, <<>>)

\* ------------------------------------------------------------------------
\* Chart configurations and their validation
\* ------------------------------------------------------------------------
\* a dataKey that the configuration does not give
NoKey == "<undefined>"

\* an axis the configuration does not give
NoAxis == [absent |-> TRUE, dataKey |-> NoKey, label |-> NoKey]

Axis(key, label) == [absent |-> FALSE, dataKey |-> key, label |-> label]

\* the value the chart map returns for a chart marked for removal
null == [null |-> TRUE]

FallbackColor == "#8884d8"

\* !isNaN(parseFloat(chartData[0][key]))
IsNumericKey(first, key) == ~isNaN(parseFloat(Cell(first, key)))

\* mutant: availableDataKeys.includes(item), which no key ever equals
IsAvailableNever(availableDataKeys, item) == FALSE

\* mutant: availableDataKeys.indexOf(item.dataKey) > 0
IsAvailableNotFirst(availableDataKeys, item) ==
    \E i \in 2..Len(availableDataKeys) : availableDataKeys[i] = item.dataKey

\* availableDataKeys.includes(item.dataKey)
IsAvailable(availableDataKeys, item) == Includes(availableDataKeys, item.dataKey)

\* mutant: an area chart falls through to 'line'
RenderTypeNoArea(chartType) == IF chartType = "BarChart" THEN "bar" ELSE "line"

\* chart.chartType === 'BarChart' ? 'bar' : (chart.chartType === 'AreaChart' ? 'area' : 'line')
RenderType(chartType) ==
    IF chartType = "BarChart" THEN "bar"
    ELSE IF chartType = "AreaChart" THEN "area" ELSE "line"

\* chart.colors[0] || "#8884d8"
FirstColor(colors) ==
    IF Len(colors) > 0 /\ colors[1] # "" THEN colors[1] ELSE FallbackColor

\* mutant: the first two columns, numeric or not
DefaultDataKeysAnyColumn(first) == Slice(ObjectKeys(first), 2)

\* availableDataKeys.filter(key => !isNaN(parseFloat(chartData[0][key]))).slice(0, 2)
DefaultDataKeys(first) ==
    Slice(SelectSeq(ObjectKeys(first), LAMBDA key : IsNumericKey(first, key)), 2)

\* the series bindings the fallback gives a chart
FallbackSeries(chart, defaultDataKeys) ==
    [i \in 1..Len(defaultDataKeys) |->
        [type      |-> RenderType(chart.chartType),
         dataKey   |-> defaultDataKeys[i],
         stroke    |-> FirstColor(chart.colors),
         fill      |-> FirstColor(chart.colors),
         activeDot |-> TRUE]]

\* !chart.xAxis || !chart.xAxis.dataKey
XAxisNotSet(chart) ==
    chart.xAxis.absent \/ chart.xAxis.dataKey = NoKey \/ chart.xAxis.dataKey = ""

\* the first of the keys found, or undefined
Found(hits) == IF hits = <<>> THEN NoKey ELSE hits[1]

\* mutant: the first key that is not numeric, as the name of the constant says
FirstNonNumericKey(first) ==
    Found(SelectSeq(ObjectKeys(first), LAMBDA key : ~IsNumericKey(first, key)))

\* availableDataKeys.find(key => !isNaN(parseFloat(chartData[0][key])))
FirstNumericKey(first) ==
    Found(SelectSeq(ObjectKeys(first), LAMBDA key : IsNumericKey(first, key)))

\* chart.xAxis, or the axis over the key found when the chart has no x axis key
XAxisOr(chart, firstNonNumericKey) ==
    IF XAxisNotSet(chart) /\ firstNonNumericKey # NoKey /\ firstNonNumericKey # ""
    THEN Axis(firstNonNumericKey, firstNonNumericKey)
    ELSE chart.xAxis

\* the x axis after the fallback
FallbackXAxis(chart, first) == XAxisOr(chart, FirstNumericKey(first))

\* mutant: the test for the original list being non-empty is missing
NeedsFallbackWhenNoneValid(valid, chart) == Len(valid) = 0

\* validDataLinesOrBarsOrAreas.length === 0 && chart.dataLinesOrBarsOrAreas.length > 0
NeedsFallback(valid, chart) == Len(valid) = 0 /\ Len(chart.dataLinesOrBarsOrAreas) > 0

\* mutant: a chart that cannot be given default bindings is kept as it came
FallbackKeepsChart(chart, first, defaultDataKeys) ==
    IF Len(defaultDataKeys) > 0
    THEN [chart EXCEPT
            !.dataLinesOrBarsOrAreas = FallbackSeries(chart, defaultDataKeys),
            !.xAxis = FallbackXAxis(chart, first)]
    ELSE chart

\* the chart with the fallback bindings, or null when there is no default key
Fallback(chart, first, defaultDataKeys) ==
    IF Len(defaultDataKeys) > 0
    THEN [chart EXCEPT
            !.dataLinesOrBarsOrAreas = FallbackSeries(chart, defaultDataKeys),
            !.xAxis = FallbackXAxis(chart, first)]
    ELSE null

\* the chart after the test of its valid bindings
Repair(chart, first, validDataLinesOrBarsOrAreas) ==
    IF NeedsFallback(validDataLinesOrBarsOrAreas, chart)
    THEN Fallback(chart, first, DefaultDataKeys(first))
    ELSE IF Len(validDataLinesOrBarsOrAreas) # Len(chart.dataLinesOrBarsOrAreas)
    THEN [chart EXCEPT !.dataLinesOrBarsOrAreas = validDataLinesOrBarsOrAreas]
    ELSE chart

\* the callback of parsedDashboardConfig.charts.map: the chart or null
ValidateChart(chart, first) ==
    Repair(chart, first,
           SelectSeq(chart.dataLinesOrBarsOrAreas,
                     LAMBDA item : IsAvailable(ObjectKeys(first), item)))

\* charts.map(...).filter(Boolean) against the first record of the dataset
ValidateCharts(charts, first) ==
    SelectSeq([i \in 1..Len(charts) |-> ValidateChart(charts[i], first)],
              LAMBDA c : c # null)

\* ------------------------------------------------------------------------
\* Tables of an analysis run
\* ------------------------------------------------------------------------
\* tableDesc.columns when the description has none
NoColumns == [present |-> FALSE, items |-> <<>>]

Columns(items) == [present |-> TRUE, items |-> items]

\* tableDesc.nValue when the description has none
NoValue == [present |-> FALSE, n |-> 0]

NValue(n) == [present |-> TRUE, n |-> n]

\* the truthiness of a property that holds a string when it is present
IsTruthyKey(key) == key # NoKey /\ key # ""

\* let tableData = []
EmptyTable == [kind |-> "array", value |-> <<>>]

\* the text of the note, by the values it is built from
TopNNote(tableDesc) ==
    [kind |-> "array",
     value |-> << [nValue |-> tableDesc.nValue.n, columns |-> tableDesc.columns.items,
                   groupByColumn |-> tableDesc.groupByColumn] >>]

\* mutant: the frequencies are those of the columns list
TableDataOfColumns(tableDesc, data) ==
    IF tableDesc.type = "summary_statistics" /\ tableDesc.columns.present
    THEN [kind |-> "statistics",
          value |-> getDescriptiveStatistics(data, tableDesc.columns.items)]
    ELSE IF tableDesc.type = "frequency_distribution" /\ IsTruthyKey(tableDesc.column)
    THEN [kind |-> "distributions",
          value |-> getFrequencyDistribution(data, tableDesc.columns.items)]
    ELSE EmptyTable

\* the data of one table description
TableData(tableDesc, data) ==
    IF tableDesc.type = "summary_statistics" /\ tableDesc.columns.present
    THEN [kind |-> "statistics",
          value |-> getDescriptiveStatistics(data, tableDesc.columns.items)]
    ELSE IF tableDesc.type = "frequency_distribution" /\ IsTruthyKey(tableDesc.column)
    THEN [kind |-> "distributions",
          value |-> getFrequencyDistribution(data, <<tableDesc.column>>)]
    ELSE IF /\ tableDesc.type = "top_n_values"
            /\ tableDesc.columns.present
            /\ IsTruthyKey(tableDesc.groupByColumn)
            /\ tableDesc.nValue.present
            /\ tableDesc.nValue.n # 0
    THEN TopNNote(tableDesc)
    ELSE EmptyTable

\* { ...tableDesc, data: tableData }
WithData(tableDesc, tableData) ==
    [title |-> tableDesc.title, type |-> tableDesc.type, columns |-> tableDesc.columns,
     column |-> tableDesc.column, groupByColumn |-> tableDesc.groupByColumn,
     nValue |-> tableDesc.nValue, data |-> tableData]

\* parsedDashboardConfig.tableDescriptions.map(...)
GenerateTables(tableDescriptions, data) ==
    [i \in 1..Len(tableDescriptions) |->
        WithData(tableDescriptions[i], TableData(tableDescriptions[i], data))]

\* the truthiness of table.data: an array and an object are truthy, undefined
\* is not
IsTruthyData(tableData) == tableData.kind # "undefined"

\* Object.keys(table.data).length
DataKeyCount(tableData) == Len(tableData.value)

\* table.data[table.column] is an object with a key
HasCounts(table) ==
    /\ table.data.kind = "distributions"
    /\ HasKey(table.data.value, table.column)
    /\ DOMAIN Prop(table.data.value, table.column) # {}

\* the header row "No data available for this table." is rendered
NoDataHeader(table) ==
    /\ IsTruthyData(table.data)
    /\ \/ ~IsTruthyData(table.data)
       \/ table.type = "summary_statistics" /\ DataKeyCount(table.data) = 0
       \/ /\ table.type = "frequency_distribution"
          /\ (~IsTruthyKey(table.column) \/ ~HasCounts(table))

\* the paragraph "No data generated for this table type ..." is rendered
NoDataParagraph(table) == ~IsTruthyData(table.data)

\* the configuration after its charts were validated and its tables generated
ProcessConfig(config, data) ==
    [charts |-> ValidateCharts(config.charts, data[1]),
     tableDescriptions |-> config.tableDescriptions,
     metrics |-> config.metrics,
     tables |-> GenerateTables(config.tableDescriptions, data)]

\* ------------------------------------------------------------------------
\* State
\* ------------------------------------------------------------------------
VARIABLES
    knownRecord,     \* validation: chartData[0], the representative record
    inputCharts,     \* validation: the chart list of the AI configuration
    validated,       \* validation: the chart list after the latest pass
    firstPass,       \* validation: the chart list after the first pass
    passes,          \* validation: number of passes applied
    statsData,       \* statistics: the dataset
    statsCols,       \* statistics: the requested columns
    statsResult,     \* statistics: what getDescriptiveStatistics returned
    statsDone,       \* statistics: whether it was called
    freqData,        \* frequencies: the dataset
    freqCols,        \* frequencies: the requested columns
    freqResult,      \* frequencies: what getFrequencyDistribution returned
    freqDone,        \* frequencies: whether it was called
    tablesInput,     \* tables: the table descriptions of the AI configuration
    tablesData,      \* tables: the dataset
    tablesResult,    \* tables: the generated tables
    tablesDone,      \* tables: whether they were generated
    datasetFile,     \* the selected file, or null
    reading,         \* the files whose FileReader has not called onload yet
    chartData,       \* the parsed dataset
    autoAnalysisResult, \* the dashboard configuration on display, or null
    isLoading,
    errorMessage,
    successMessage,
    userId,
    firebaseReady,
    dbInstance,      \* whether the Firestore instance is set
    runs,            \* the calls that have not returned, and those that returned
                     \* since the latest call began
    writes,          \* the documents handed to Firestore whose promise is
                     \* pending, and those settled since the latest call began
    scriptLoadStatus,   \* the scripts whose load callback has run
    scriptsFailed,      \* the scripts whose onerror has run
    windowGlobals,      \* the scripts whose global object is defined
    appInstances,       \* the number of calls of initializeApp
    currentPage,        \* 'generator' or 'dashboard'
    savedDashboards,    \* the documents the snapshot listener was given
    selectedSavedDashboardId

validateVars == <<knownRecord, inputCharts, validated, firstPass, passes>>

statsVars == <<statsData, statsCols, statsResult, statsDone>>

freqVars == <<freqData, freqCols, freqResult, freqDone>>

tableVars == <<tablesInput, tablesData, tablesResult, tablesDone>>

loadVars == <<scriptLoadStatus, scriptsFailed, windowGlobals, appInstances>>

savedVars == <<currentPage, savedDashboards, selectedSavedDashboardId>>

appVars ==
    <<datasetFile, reading, chartData, autoAnalysisResult, isLoading, errorMessage,
      successMessage, userId, firebaseReady, dbInstance, runs, writes, loadVars,
      savedVars>>

vars == <<validateVars, statsVars, freqVars, tableVars, appVars>>

\* the variables of the validation harness while another specification runs
ValidateIdle ==
    /\ knownRecord = <<>>
    /\ inputCharts = <<>>
    /\ validated = <<>>
    /\ firstPass = <<>>
    /\ passes = 0

\* the variables of the statistics harness while another specification runs
StatsIdle ==
    /\ statsData = <<>>
    /\ statsCols = <<>>
    /\ statsResult = <<>>
    /\ statsDone = FALSE

\* the variables of the frequency harness while another specification runs
FreqIdle ==
    /\ freqData = <<>>
    /\ freqCols = <<>>
    /\ freqResult = <<>>
    /\ freqDone = FALSE

\* the variables of the table harness while another specification runs
TablesIdle ==
    /\ tablesInput = <<>>
    /\ tablesData = <<>>
    /\ tablesResult = <<>>
    /\ tablesDone = FALSE

\* no user is signed in
NoUser == ""

\* the state of the component when it is mounted
AppIdle ==
    /\ datasetFile = null
    /\ reading = {}
    /\ chartData = <<>>
    /\ autoAnalysisResult = null
    /\ isLoading = FALSE
    /\ errorMessage = ""
    /\ successMessage = ""
    /\ userId = NoUser
    /\ firebaseReady = FALSE
    /\ dbInstance = FALSE
    /\ runs = <<>>
    /\ writes = <<>>
    /\ scriptLoadStatus = {}
    /\ scriptsFailed = {}
    /\ windowGlobals = {}
    /\ appInstances = 0
    /\ currentPage = "generator"
    /\ savedDashboards = <<>>
    /\ selectedSavedDashboardId = NoKey

\* ------------------------------------------------------------------------
\* Validation of chart lists drawn from bounded sets
\* ------------------------------------------------------------------------
MaxCharts == 3

MaxSeries == 2

Row2(k1, v1, k2, v2) == << <<k1, Str(v1)>>, <<k2, Str(v2)>> >>

Row3(k1, v1, k2, v2, k3, v3) == << <<k1, Str(v1)>>, <<k2, Str(v2)>>, <<k3, Str(v3)>> >>

\* first records: numeric and non-numeric columns in several orders
KnownRecords ==
    { Row3("label", <<"A">>, "x", <<"1">>, "y", <<"2">>),
      Row3("x", <<"1">>, "y", <<"2">>, "z", <<"3">>),
      Row3("y", <<"2", ".", "5">>, "label", <<"A">>, "x", <<"7", "k", "g">>),
      Row2("x", <<"1">>, "label", <<"A">>),
      Row2("label", <<"A">>, "x", <<>>),
      Row2("label", <<"A">>, "y", <<"n", "/", "a">>) }

SeriesKeys == {"x", "ghost"}

Binding(key) ==
    [type |-> "line", dataKey |-> key, stroke |-> "#111111", fill |-> "#222222",
     activeDot |-> FALSE]

RECURSIVE SeqsUpTo(_, _)
\* the sequences over S of length at most n
SeqsUpTo(S, n) ==
    IF n = 0 THEN {<<>>}
    ELSE LET shorter == SeqsUpTo(S, n - 1)
         IN  shorter \cup {Append(q, x) : q \in {r \in shorter : Len(r) = n - 1}, x \in S}

SeriesLists == SeqsUpTo({Binding(k) : k \in SeriesKeys}, MaxSeries)

Chart(type, xAxis, yAxis, series, colors, title) ==
    [chartType |-> type, xAxis |-> xAxis, yAxis |-> yAxis,
     dataLinesOrBarsOrAreas |-> series, colors |-> colors,
     grid |-> TRUE, tooltip |-> FALSE, legend |-> TRUE, title |-> title]

\* the charts the first position of a list ranges over
Charts ==
    { Chart(type, xAxis, yAxis, series, colors, "Chart 1") :
        type   \in {"LineChart", "BarChart", "AreaChart"},
        xAxis  \in {NoAxis, Axis("", ""), Axis("label", "Label"), Axis("ghost", "Ghost")},
        yAxis  \in {Axis("y", "Y")},
        series \in SeriesLists,
        colors \in {<<>>, <<"#ff0000", "#00ff00">>, <<"">>} }

\* the charts the later positions range over: valid, invalid and mixed bindings
MoreCharts ==
    { Chart("BarChart", Axis("label", "Label"), Axis("x", "X"),
            <<Binding("x"), Binding("label")>>, <<"#0000ff">>, "Valid"),
      Chart("LineChart", NoAxis, Axis("phantom", "Phantom"),
            <<Binding("ghost")>>, <<>>, "Invalid"),
      Chart("AreaChart", Axis("x", "X"), Axis("y", "Y"),
            <<Binding("ghost"), Binding("x")>>, <<"#00ffff">>, "Mixed") }

ChartLists ==
    {<<>>} \cup {<<c>> \o rest : c \in Charts, rest \in SeqsUpTo(MoreCharts, MaxCharts - 1)}

InitValidate ==
    /\ knownRecord \in KnownRecords
    /\ inputCharts \in ChartLists
    /\ validated = inputCharts
    /\ firstPass = <<>>
    /\ passes = 0
    /\ StatsIdle
    /\ FreqIdle
    /\ TablesIdle
    /\ AppIdle

\* the chart validation pass of an analysis run
Validate ==
    /\ passes = 0
    /\ validated' = ValidateCharts(inputCharts, knownRecord)
    /\ firstPass' = validated'
    /\ passes' = 1
    /\ UNCHANGED <<knownRecord, inputCharts, statsVars, freqVars, tableVars, appVars>>

\* the validation pass applied to a configuration that was validated before
ValidateAgain ==
    /\ passes = 1
    /\ validated' = ValidateCharts(validated, knownRecord)
    /\ passes' = 2
    /\ UNCHANGED <<knownRecord, inputCharts, firstPass, statsVars, freqVars, tableVars, appVars>>

NextValidate == Validate \/ ValidateAgain

SpecValidate == InitValidate /\ [][NextValidate]_vars

\* ------------------------------------------------------------------------
\* Statistics of datasets drawn from bounded sets
\* ------------------------------------------------------------------------
MaxRows == 3

\* the values of the score column: decimal text of either sign, other text, or
\* no value
ScoreValues ==
    { Str(<<"1", "0">>), Str(<<"-", "2", "0">>), Str(<<"0", ".", "0", "4", "5">>),
      Str(<<"a", "b", "c">>), Undefined }

\* a row as PapaParse or JSON.parse gives it: a missing value is a missing key
DataRow(name, score) ==
    IF score = Undefined THEN << <<"name", name>> >>
    ELSE << <<"name", name>>, <<"score", score>> >>

\* the datasets of a given number of rows; the name of the first row may be a number
RowsOf(n) ==
    { [i \in 1..n |-> DataRow(IF i = 1 THEN first ELSE Str(<<"B">>), scores[i])] :
        first \in {Str(<<"A">>), Str(<<"7">>)}, scores \in [1..n -> ScoreValues] }

\* the records of the CSV text "name,score\nA,10\nB,20\nC,30\n"
ExampleDataset ==
    << DataRow(Str(<<"A">>), Str(<<"1", "0">>)),
       DataRow(Str(<<"B">>), Str(<<"2", "0">>)),
       DataRow(Str(<<"C">>), Str(<<"3", "0">>)) >>

Datasets == UNION {RowsOf(n) : n \in 1..MaxRows} \cup {ExampleDataset}

InitStats ==
    /\ statsData \in Datasets
    /\ statsCols \in {<<"score">>, <<"name", "score", "absent">>}
    /\ statsResult = <<>>
    /\ statsDone = FALSE
    /\ ValidateIdle
    /\ FreqIdle
    /\ TablesIdle
    /\ AppIdle

\* getDescriptiveStatistics(chartData, tableDesc.columns)
ComputeStatistics ==
    /\ ~statsDone
    /\ statsResult' = getDescriptiveStatistics(statsData, statsCols)
    /\ statsDone' = TRUE
    /\ UNCHANGED <<statsData, statsCols, validateVars, freqVars, tableVars, appVars>>

NextStats == ComputeStatistics

SpecStats == InitStats /\ [][NextStats]_vars

\* ------------------------------------------------------------------------
\* Statistics of datasets whose values are text of several kinds
\* ------------------------------------------------------------------------
\* the values of the score column: a decimal, a decimal followed by a unit,
\* the names of the infinities, the empty text and other text
TextValues ==
    { Str(<<"3", ".", "5">>), Str(<<"7", "k", "g">>),
      Str(<<"I", "n", "f", "i", "n", "i", "t", "y">>),
      Str(<<"-", "I", "n", "f", "i", "n", "i", "t", "y">>),
      Str(<<>>), Str(<<"a", "b", "c">>) }

TextDatasets ==
    UNION { {[i \in 1..n |-> DataRow(Str(<<"A">>), scores[i])] :
                scores \in [1..n -> TextValues]} : n \in 1..MaxRows }

InitStatsText ==
    /\ statsData \in TextDatasets
    /\ statsCols \in {<<"score">>, <<"name", "score">>}
    /\ statsResult = <<>>
    /\ statsDone = FALSE
    /\ ValidateIdle
    /\ FreqIdle
    /\ TablesIdle
    /\ AppIdle

SpecStatsText == InitStatsText /\ [][NextStats]_vars

\* ------------------------------------------------------------------------
\* Frequencies of datasets drawn from bounded sets
\* ------------------------------------------------------------------------
\* the values of the name column: text, the empty text, null, no value, and
\* text that is the name of an inherited property
NameValues ==
    { Str(<<"A">>), Str(<<"B">>), Str(<<>>), Null, Undefined,
      Str(ProtoKey), Str(<<"c", "o", "n", "s", "t", "r", "u", "c", "t", "o", "r">>) }

\* a row of one column; a missing value is a missing key
NameRow(name) == IF name = Undefined THEN <<>> ELSE << <<"name", name>> >>

NameDatasets ==
    UNION { {[i \in 1..n |-> NameRow(names[i])] : names \in [1..n -> NameValues]} :
            n \in 1..MaxRows }

InitFrequency ==
    /\ freqData \in NameDatasets
    /\ freqCols \in {<<"name">>, <<"name", "absent">>}
    /\ freqResult = <<>>
    /\ freqDone = FALSE
    /\ ValidateIdle
    /\ StatsIdle
    /\ TablesIdle
    /\ AppIdle

\* getFrequencyDistribution(chartData, [tableDesc.column])
ComputeFrequencies ==
    /\ ~freqDone
    /\ freqResult' = getFrequencyDistribution(freqData, freqCols)
    /\ freqDone' = TRUE
    /\ UNCHANGED <<freqData, freqCols, validateVars, statsVars, tableVars, appVars>>

NextFrequency == ComputeFrequencies

SpecFrequency == InitFrequency /\ [][NextFrequency]_vars

\* ------------------------------------------------------------------------
\* Statistics and frequencies of datasets longer than the sample
\* ------------------------------------------------------------------------
\* the rows a long dataset may have after the sample
MaxTail == 2

\* the rows of the CSV lines ",", "A,10" and "B,-20"
BlankRow == DataRow(Str(<<>>), Str(<<>>))

ValueRows ==
    { DataRow(Str(<<"A">>), Str(<<"1", "0">>)),
      DataRow(Str(<<"B">>), Str(<<"-", "2", "0">>)) }

\* blank rows, then the rows of head up to the limit of the sample, then the
\* rows of tail
LongDataset(head, tail) ==
    [i \in 1..(DATA_SAMPLE_LIMIT_FOR_CALCS + Len(tail)) |->
        IF i <= DATA_SAMPLE_LIMIT_FOR_CALCS - Len(head) THEN BlankRow
        ELSE IF i <= DATA_SAMPLE_LIMIT_FOR_CALCS
        THEN head[i - (DATA_SAMPLE_LIMIT_FOR_CALCS - Len(head))]
        ELSE tail[i - DATA_SAMPLE_LIMIT_FOR_CALCS]]

Tails == SeqsUpTo(ValueRows, MaxTail)

LongDatasets ==
    {LongDataset(head, tail) : head \in [1..2 -> ValueRows], tail \in Tails}

InitSample ==
    /\ statsData \in LongDatasets
    /\ statsCols \in {<<"score">>, <<"name", "score">>}
    /\ statsResult = <<>>
    /\ statsDone = FALSE
    /\ freqData = statsData
    /\ freqCols = statsCols
    /\ freqResult = <<>>
    /\ freqDone = FALSE
    /\ ValidateIdle
    /\ TablesIdle
    /\ AppIdle

NextSample == ComputeStatistics \/ ComputeFrequencies

SpecSample == InitSample /\ [][NextSample]_vars

\* ------------------------------------------------------------------------
\* The dashboard generator: files, sign-in and analysis runs
\* ------------------------------------------------------------------------
\* the writes that may be pending when a run begins
MaxPending == 1

\* the most FileReaders that are reading at a time
MaxReading == 2

\* the most documents the list of saved dashboards holds
MaxSaved == 1

\* a file of the file input; parsed is what parsing its text gives
File(name, type, parsed) == [name |-> name, type |-> type, parsed |-> parsed]

\* what JSON.parse or Papa.parse gives for a text: an array of objects
JsonArray(rows) == [kind |-> "array", rows |-> rows]

\* an array of n values that are not objects, such as [1, 2]: a value that
\* is a number has no keys and no properties of the names of columns
JsonScalars(n) == [kind |-> "scalars", rows |-> [i \in 1..n |-> <<>>]]

\* a value that is not an array, such as {"rows": []}
JsonObject == [kind |-> "object", rows |-> <<>>]

\* JSON.parse throws a SyntaxError
Unparsable == [kind |-> "unparsable", rows |-> <<>>]

ScoresRows ==
    << DataRow(Str(<<"A">>), Str(<<"1", "0">>)),
       DataRow(Str(<<"B">>), Str(<<"2", "0">>)) >>

LabelsRows == << Row2("name", <<"A">>, "y", <<"n", "/", "a">>) >>

Files ==
    { File("scores.json", "application/json", JsonArray(ScoresRows)),
      File("labels.json", "application/json", JsonArray(LabelsRows)),
      File("empty.json", "application/json", JsonArray(<<>>)),
      File("notes.txt", "text/plain", Unparsable) }

\* further files: JSON text of other shapes, and CSV text
IngestFiles ==
    Files \cup
    { File("broken.json", "application/json", Unparsable),
      File("object.json", "application/json", JsonObject),
      File("numbers.json", "application/json", JsonScalars(2)),
      File("scores.csv", "text/csv", JsonArray(ScoresRows)),
      File("empty.csv", "text/csv", JsonArray(<<>>)),
      File("broken.csv", "text/csv", Unparsable) }

Users == {"user-1"}

TableDescription(title, type, columns, column, groupByColumn, nValue) ==
    [title |-> title, type |-> type, columns |-> columns, column |-> column,
     groupByColumn |-> groupByColumn, nValue |-> nValue]

Metric(label, value) == [label |-> label, value |-> value]

Config(charts, tableDescriptions, metrics) ==
    [charts |-> charts, tableDescriptions |-> tableDescriptions, metrics |-> metrics]

ScoreByName ==
    Chart("BarChart", Axis("name", "Name"), Axis("score", "Score"),
          <<Binding("score")>>, <<"#0000ff">>, "Score by name")

GhostTrend ==
    Chart("LineChart", NoAxis, Axis("ghost", "Ghost"),
          <<Binding("ghost")>>, <<>>, "Ghost trend")

MixedArea ==
    Chart("AreaChart", Axis("name", "Name"), Axis("score", "Score"),
          <<Binding("ghost"), Binding("name")>>, <<"#00ffff">>, "Mixed area")

\* the configurations the AI answers with
Configs ==
    { Config(<<ScoreByName, GhostTrend, MixedArea>>,
             << TableDescription("Summary", "summary_statistics",
                                 Columns(<<"score", "ghost">>), NoKey, NoKey, NoValue),
                TableDescription("Names", "frequency_distribution",
                                 NoColumns, "name", NoKey, NoValue),
                TableDescription("Top", "top_n_values",
                                 Columns(<<"score">>), NoKey, "name", NValue(5)),
                TableDescription("Bare", "summary_statistics",
                                 NoColumns, NoKey, NoKey, NoValue) >>,
             << Metric("Rows", "2"), Metric("Columns", "2") >>),
      Config(<<ScoreByName>>, <<>>, <<>>) }

NoConfig == Config(<<>>, <<>>, <<>>)

Body(kind, config) == [kind |-> kind, config |-> config]

\* no body was read yet
NoBody == Body("none", NoConfig)

\* what reading the body of the response gives: json() rejects, an answer
\* without candidates, candidate text that is not JSON, JSON without a chart
\* list, or a configuration
ResponseBodies ==
    { Body(kind, NoConfig) : kind \in {"rejected", "no candidates", "invalid text", "no charts"} }
        \cup { Body("config", config) : config \in Configs }

\* a call of analyzeAndGenerateDashboard: where it stands, and the state its
\* closure captured
Run(pc, exit, received, file, data, user, ready, db) ==
    [pc |-> pc, exit |-> exit, received |-> received, datasetFile |-> file,
     chartData |-> data, userId |-> user, firebaseReady |-> ready, dbInstance |-> db,
     dataKeys |-> ObjectKeys(data[1])]

\* the run after it returned
Returned(run, exit, received) == [run EXCEPT !.pc = "done", !.exit = exit, !.received = received]

InitApp ==
    /\ AppIdle
    /\ ValidateIdle
    /\ StatsIdle
    /\ FreqIdle
    /\ TablesIdle

\* the scripts the effect loads: the keys of scriptLoadStatus
Scripts == {"app", "auth", "firestore", "papaparse"}

\* mutant: the flag and the global object of the CSV parser are not tested
AllScriptsReadyButParser(status, globals) ==
    /\ Scripts \ {"papaparse"} \subseteq status
    /\ Scripts \ {"papaparse"} \subseteq globals

\* the condition of checkAllScriptsLoaded: every flag is set and every
\* global object is defined
AllScriptsReady(status, globals) == status = Scripts /\ globals = Scripts

\* the load callback of a script: it sets the flag of the script and calls
\* checkAllScriptsLoaded. Whether running the script defined its global
\* object (window.firebase, .auth, .firestore, window.Papa) is an outcome of
\* the script. appInstance is null in the closure of the effect, whatever
\* the state holds, so initializeApp is called whenever the condition holds.
ScriptOnLoad(id, defined) ==
    /\ id \notin scriptLoadStatus \cup scriptsFailed
    /\ scriptLoadStatus' = scriptLoadStatus \cup {id}
    /\ windowGlobals' = IF defined THEN windowGlobals \cup {id} ELSE windowGlobals
    /\ appInstances' = IF AllScriptsReady(scriptLoadStatus', windowGlobals')
                       THEN appInstances + 1 ELSE appInstances
    /\ dbInstance' = IF AllScriptsReady(scriptLoadStatus', windowGlobals')
                     THEN TRUE ELSE dbInstance
    /\ UNCHANGED <<datasetFile, reading, chartData, autoAnalysisResult, isLoading,
                   errorMessage, successMessage, userId, firebaseReady, runs, writes>>
    /\ UNCHANGED <<scriptsFailed, savedVars>>
    /\ UNCHANGED <<validateVars, statsVars, freqVars, tableVars>>

\* script.onerror
ScriptOnError(id) ==
    /\ id \notin scriptLoadStatus \cup scriptsFailed
    /\ scriptsFailed' = scriptsFailed \cup {id}
    /\ errorMessage' = "Failed to load script. Please check your internet connection."
    /\ UNCHANGED <<datasetFile, reading, chartData, autoAnalysisResult, isLoading,
                   successMessage, userId, firebaseReady, dbInstance, runs, writes>>
    /\ UNCHANGED <<scriptLoadStatus, windowGlobals, appInstances, savedVars>>
    /\ UNCHANGED <<validateVars, statsVars, freqVars, tableVars>>

\* the listener of onAuthStateChanged, called with a user
OnAuthStateChanged(user) ==
    /\ dbInstance
    /\ userId = NoUser
    /\ userId' = user
    /\ firebaseReady' = TRUE
    /\ UNCHANGED <<datasetFile, reading, chartData, autoAnalysisResult, isLoading,
                   errorMessage, successMessage, dbInstance, runs, writes>>
    /\ UNCHANGED <<validateVars, statsVars, freqVars, tableVars, loadVars, savedVars>>

\* the listener called without a user, and the sign-in it starts is rejected
SignInFailed ==
    /\ dbInstance
    /\ userId = NoUser
    /\ errorMessage' = "Firebase sign-in failed. Data saving will not work."
    /\ UNCHANGED <<datasetFile, reading, chartData, autoAnalysisResult, isLoading,
                   successMessage, userId, firebaseReady, dbInstance, runs, writes>>
    /\ UNCHANGED <<validateVars, statsVars, freqVars, tableVars, loadVars, savedVars>>

\* the users a later sign-in can give: a new anonymous sign-in has a new uid
LaterUsers == Users \cup {"user-2"}

\* the listener called with a user once more
OnAuthStateChangedAgain(user) ==
    /\ dbInstance
    /\ userId # NoUser
    /\ userId' = user
    /\ firebaseReady' = TRUE
    /\ UNCHANGED <<datasetFile, reading, chartData, autoAnalysisResult, isLoading,
                   errorMessage, successMessage, dbInstance, runs, writes>>
    /\ UNCHANGED <<validateVars, statsVars, freqVars, tableVars, loadVars, savedVars>>

\* mutant: the listener called without a user takes the user off the state
SignedOutResetting ==
    /\ dbInstance
    /\ userId # NoUser
    /\ userId' = NoUser
    /\ firebaseReady' = FALSE
    /\ errorMessage' = "Firebase sign-in failed. Data saving will not work."
    /\ UNCHANGED <<datasetFile, reading, chartData, autoAnalysisResult, isLoading,
                   successMessage, dbInstance, runs, writes>>
    /\ UNCHANGED <<validateVars, statsVars, freqVars, tableVars, loadVars, savedVars>>

\* the listener called without a user after a user had signed in, and the
\* sign-in it starts is rejected
SignedOut ==
    /\ dbInstance
    /\ userId # NoUser
    /\ errorMessage' = "Firebase sign-in failed. Data saving will not work."
    /\ UNCHANGED <<datasetFile, reading, chartData, autoAnalysisResult, isLoading,
                   successMessage, userId, firebaseReady, dbInstance, runs, writes>>
    /\ UNCHANGED <<validateVars, statsVars, freqVars, tableVars, loadVars, savedVars>>

\* handleDatasetFileChange with a file: parseDataset starts a reader
SelectFile(file) ==
    /\ ~isLoading
    /\ currentPage = "generator"
    /\ file \notin reading
    /\ Cardinality(reading) < MaxReading
    /\ datasetFile' = file
    /\ errorMessage' = ""
    /\ successMessage' = ""
    /\ reading' = reading \cup {file}
    /\ UNCHANGED <<chartData, autoAnalysisResult, isLoading, userId, firebaseReady,
                   dbInstance, runs, writes>>
    /\ UNCHANGED <<validateVars, statsVars, freqVars, tableVars, loadVars, savedVars>>

\* handleDatasetFileChange without a file
ClearFile ==
    /\ ~isLoading
    /\ currentPage = "generator"
    /\ datasetFile # null
    /\ datasetFile' = null
    /\ chartData' = <<>>
    /\ autoAnalysisResult' = null
    /\ UNCHANGED <<reading, isLoading, errorMessage, successMessage, userId,
                   firebaseReady, dbInstance, runs, writes>>
    /\ UNCHANGED <<validateVars, statsVars, freqVars, tableVars, loadVars, savedVars>>

\* mutant: the type of the file is not looked at
ParseErrorOfAnyType(file) ==
    IF file.parsed.kind = "unparsable"
    THEN "Error parsing dataset: Unexpected token"
    ELSE IF file.parsed.kind = "object" \/ Len(file.parsed.rows) = 0
    THEN "Error parsing dataset: Dataset is empty or malformed."
    ELSE ""

\* the message reader.onload sets for the file, or "" for none: the message
\* of the complete callback for CSV, that of the catch block otherwise
ParseError(file) ==
    IF file.type = "text/csv"
    THEN IF file.parsed.kind = "unparsable" THEN "CSV parsing error: Unexpected"
         ELSE IF Len(file.parsed.rows) = 0 THEN "CSV dataset is empty or malformed."
         ELSE ""
    ELSE IF file.type # "application/json"
    THEN "Error parsing dataset: Unsupported file type. Please upload a CSV or JSON file."
    ELSE IF file.parsed.kind = "unparsable"
    THEN "Error parsing dataset: Unexpected token"
    ELSE IF file.parsed.kind = "object" \/ Len(file.parsed.rows) = 0
    THEN "Error parsing dataset: Dataset is empty or malformed."
    ELSE ""

\* reader.onload for a CSV file returns at once: window.Papa is undefined
PapaMissing(file, globals) == file.type = "text/csv" /\ "papaparse" \notin globals

\* the message reader.onload sets: that of the missing parser, or that of
\* the parsing
LoadError(file, globals) ==
    IF PapaMissing(file, globals)
    THEN "PapaParse library is not yet loaded. Please wait a moment or refresh."
    ELSE ParseError(file)

\* mutant: a dataset that was parsed clears the dashboard on display
ReaderOnLoadClearing(file) ==
    /\ file \in reading
    /\ reading' = reading \ {file}
    /\ chartData' = IF PapaMissing(file, windowGlobals) THEN chartData
                    ELSE IF ParseError(file) = "" THEN file.parsed.rows ELSE <<>>
    /\ successMessage' = IF LoadError(file, windowGlobals) = ""
                         THEN "Dataset parsed successfully! Ready for analysis."
                         ELSE successMessage
    /\ errorMessage' = IF LoadError(file, windowGlobals) = "" THEN errorMessage
                       ELSE LoadError(file, windowGlobals)
    /\ autoAnalysisResult' = IF LoadError(file, windowGlobals) = "" THEN null
                             ELSE autoAnalysisResult
    /\ UNCHANGED <<datasetFile, isLoading, userId, firebaseReady, dbInstance, runs, writes>>
    /\ UNCHANGED <<validateVars, statsVars, freqVars, tableVars, loadVars, savedVars>>

\* reader.onload of parseDataset for one of the files that are being read,
\* with the callbacks of Papa.parse for a CSV file
ReaderOnLoad(file) ==
    /\ file \in reading
    /\ reading' = reading \ {file}
    /\ chartData' = IF PapaMissing(file, windowGlobals) THEN chartData
                    ELSE IF ParseError(file) = "" THEN file.parsed.rows ELSE <<>>
    /\ successMessage' = IF LoadError(file, windowGlobals) = ""
                         THEN "Dataset parsed successfully! Ready for analysis."
                         ELSE successMessage
    /\ errorMessage' = IF LoadError(file, windowGlobals) = "" THEN errorMessage
                       ELSE LoadError(file, windowGlobals)
    /\ UNCHANGED <<datasetFile, autoAnalysisResult, isLoading, userId, firebaseReady,
                   dbInstance, runs, writes>>
    /\ UNCHANGED <<validateVars, statsVars, freqVars, tableVars, loadVars, savedVars>>

\* the button that calls analyzeAndGenerateDashboard is enabled
CanAnalyze ==
    /\ currentPage = "generator"
    /\ ~(isLoading \/ datasetFile = null \/ ~firebaseReady \/ Len(chartData) = 0)

\* the message of the early return of analyzeAndGenerateDashboard, or "" for none
EntryError ==
    IF Len(chartData) = 0 THEN "Please upload a dataset first."
    ELSE IF ~firebaseReady \/ userId = NoUser \/ ~dbInstance
    THEN "Firebase is not ready. Please wait or refresh to save dashboards."
    ELSE ""

\* analyzeAndGenerateDashboard up to its fetch
StartAnalysis ==
    /\ CanAnalyze
    /\ Len(SelectSeq(writes, LAMBDA document : document.state = "pending")) < MaxPending
    /\ errorMessage' = EntryError
    /\ isLoading' = (EntryError = "")
    /\ successMessage' = IF EntryError = "" THEN "" ELSE successMessage
    /\ autoAnalysisResult' = IF EntryError = "" THEN null ELSE autoAnalysisResult
    /\ runs' = IF EntryError = ""
               THEN Append(SelectSeq(runs, LAMBDA run : run.pc # "done"),
                           Run("fetch", "", NoBody, datasetFile, chartData,
                               userId, firebaseReady, dbInstance))
               ELSE runs
    /\ writes' = IF EntryError = ""
                 THEN SelectSeq(writes, LAMBDA document : document.state = "pending")
                 ELSE writes
    /\ UNCHANGED <<datasetFile, reading, chartData, userId, firebaseReady, dbInstance>>
    /\ UNCHANGED <<validateVars, statsVars, freqVars, tableVars, loadVars, savedVars>>

\* mutant: the catch block without the finally block
ThrownWithoutFinally(i, received) ==
    /\ errorMessage' = "An unexpected error occurred"
    /\ runs' = [runs EXCEPT ![i] = Returned(runs[i], "thrown", received)]
    /\ UNCHANGED <<autoAnalysisResult, isLoading, successMessage, writes>>

\* the catch and finally blocks of analyzeAndGenerateDashboard
Thrown(i, received) ==
    /\ errorMessage' = "An unexpected error occurred"
    /\ isLoading' = FALSE
    /\ runs' = [runs EXCEPT ![i] = Returned(runs[i], "thrown", received)]
    /\ UNCHANGED <<autoAnalysisResult, successMessage, writes>>

\* the fetch of the analysis settles: a response that is ok, a response that
\* is not, or a rejection
FetchSettled(i, outcome) ==
    /\ runs[i].pc = "fetch"
    /\ IF outcome = "rejected" THEN Thrown(i, NoBody)
       ELSE /\ runs' = [runs EXCEPT ![i].pc = IF outcome = "ok" THEN "json" ELSE "text"]
            /\ UNCHANGED <<autoAnalysisResult, isLoading, errorMessage, successMessage,
                           writes>>
    /\ UNCHANGED <<datasetFile, reading, chartData, userId, firebaseReady, dbInstance>>
    /\ UNCHANGED <<validateVars, statsVars, freqVars, tableVars, loadVars, savedVars>>

\* analysisResponse.text() of a response that is not ok settles
ErrorTextRead(i, outcome) ==
    /\ runs[i].pc = "text"
    /\ IF outcome = "rejected" THEN Thrown(i, NoBody)
       ELSE /\ errorMessage' = "Failed to analyze data"
            /\ isLoading' = FALSE
            /\ runs' = [runs EXCEPT ![i] = Returned(runs[i], "failed", NoBody)]
            /\ UNCHANGED <<autoAnalysisResult, successMessage, writes>>
    /\ UNCHANGED <<datasetFile, reading, chartData, userId, firebaseReady, dbInstance>>
    /\ UNCHANGED <<validateVars, statsVars, freqVars, tableVars, loadVars, savedVars>>

\* the run can save: firebaseReady && userId && dbInstance, as its closure has them
CanSave(run) == run.firebaseReady /\ run.userId # NoUser /\ run.dbInstance

\* the document handed to add()
Document(run, parsedDashboardConfig) ==
    [userId |-> run.userId,
     dashboardConfig |-> parsedDashboardConfig,
     datasetMetadata |->
        [name |-> IF run.datasetFile # null THEN run.datasetFile.name
                  ELSE "Uploaded Dataset",
         keys |-> run.dataKeys],
     state |-> "pending"]

\* the run from the validation of the charts to its end
Generated(i, received, parsedDashboardConfig) ==
    /\ autoAnalysisResult' = parsedDashboardConfig
    /\ successMessage' = "Dashboard generated successfully!"
    /\ writes' = IF CanSave(runs[i])
                 THEN Append(writes, Document(runs[i], parsedDashboardConfig))
                 ELSE writes
    /\ errorMessage' =
         IF CanSave(runs[i]) THEN errorMessage
         ELSE "Firebase not ready or dbInstance not initialized, dashboard could not be saved. Please refresh."
    /\ isLoading' = FALSE
    /\ runs' = [runs EXCEPT ![i] = Returned(runs[i], "generated", received)]

\* mutant: the run ends and reports nothing
RejectedUnreported(i, received, exit, message) ==
    /\ isLoading' = FALSE
    /\ runs' = [runs EXCEPT ![i] = Returned(runs[i], exit, received)]
    /\ UNCHANGED <<autoAnalysisResult, errorMessage, successMessage, writes>>

\* the run ends with a message and no dashboard
Rejected(i, received, exit, message) ==
    /\ errorMessage' = message
    /\ isLoading' = FALSE
    /\ runs' = [runs EXCEPT ![i] = Returned(runs[i], exit, received)]
    /\ UNCHANGED <<autoAnalysisResult, successMessage, writes>>

\* analysisResponse.json() settles and the run goes on to its end
BodyRead(i, received) ==
    /\ runs[i].pc = "json"
    /\ IF received.kind = "rejected" \/ received.kind = "no charts"
       THEN Thrown(i, received)
       ELSE IF received.kind = "no candidates"
       THEN Rejected(i, received, "unexpected",
                     "Could not generate dashboard configuration. AI response was unexpected.")
       ELSE IF received.kind = "invalid text"
       THEN Rejected(i, received, "unparsable", "Error parsing AI-generated JSON config")
       ELSE Generated(i, received, ProcessConfig(received.config, runs[i].chartData))
    /\ UNCHANGED <<datasetFile, reading, chartData, userId, firebaseReady, dbInstance>>
    /\ UNCHANGED <<validateVars, statsVars, freqVars, tableVars, loadVars, savedVars>>

\* mutant: a rejected write takes the dashboard off the display
SaveSettledRollingBack(j, outcome) ==
    /\ writes[j].state = "pending"
    /\ writes' = [writes EXCEPT ![j].state = outcome]
    /\ successMessage' = IF outcome = "saved"
                         THEN "Dashboard generated and saved successfully!"
                         ELSE successMessage
    /\ errorMessage' = IF outcome = "saved" THEN errorMessage
                       ELSE "Failed to save dashboard to Firestore."
    /\ autoAnalysisResult' = IF outcome = "saved" THEN autoAnalysisResult ELSE null
    /\ UNCHANGED <<datasetFile, reading, chartData, isLoading,
                   userId, firebaseReady, dbInstance, runs>>
    /\ UNCHANGED <<validateVars, statsVars, freqVars, tableVars, loadVars, savedVars>>

\* the promise of add() settles
SaveSettled(j, outcome) ==
    /\ writes[j].state = "pending"
    /\ writes' = [writes EXCEPT ![j].state = outcome]
    /\ successMessage' = IF outcome = "saved"
                         THEN "Dashboard generated and saved successfully!"
                         ELSE successMessage
    /\ errorMessage' = IF outcome = "saved" THEN errorMessage
                       ELSE "Failed to save dashboard to Firestore."
    /\ UNCHANGED <<datasetFile, reading, chartData, autoAnalysisResult, isLoading,
                   userId, firebaseReady, dbInstance, runs>>
    /\ UNCHANGED <<validateVars, statsVars, freqVars, tableVars, loadVars, savedVars>>

\* the steps of the app but the start of a run, where every script defines
\* its global object and a file is selected once the one before it was read
AppSteps ==
    \/ \E id \in Scripts : ScriptOnLoad(id, TRUE)
    \/ \E user \in Users : OnAuthStateChanged(user)
    \/ SignInFailed
    \/ \E file \in Files : reading = {} /\ SelectFile(file)
    \/ ClearFile
    \/ \E file \in Files : ReaderOnLoad(file)
    \/ \E i \in 1..Len(runs), outcome \in {"ok", "error status", "rejected"} :
          FetchSettled(i, outcome)
    \/ \E i \in 1..Len(runs), outcome \in {"resolved", "rejected"} :
          ErrorTextRead(i, outcome)
    \/ \E i \in 1..Len(runs), received \in ResponseBodies : BodyRead(i, received)
    \/ \E j \in 1..Len(writes), outcome \in {"saved", "failed"} : SaveSettled(j, outcome)

\* the app from its mount to its analysis runs
Next == AppSteps \/ StartAnalysis

Spec == InitApp /\ [][Next]_vars

\* the dashboards button of the header
TogglePage ==
    /\ currentPage' = IF currentPage = "generator" THEN "dashboard" ELSE "generator"
    /\ UNCHANGED <<datasetFile, reading, chartData, autoAnalysisResult, isLoading,
                   errorMessage, successMessage, userId, firebaseReady, dbInstance,
                   runs, writes>>
    /\ UNCHANGED <<savedDashboards, selectedSavedDashboardId, loadVars>>
    /\ UNCHANGED <<validateVars, statsVars, freqVars, tableVars>>

\* the user the effect of the saved dashboards has subscribed for, or none:
\* the effect returns unless firebaseReady, userId and dbInstance are set
Subscription == IF firebaseReady /\ userId # NoUser /\ dbInstance THEN userId ELSE NoUser

\* the document as the snapshot gives it: { id: doc.id, ...doc.data() }
Fetched(id, document) ==
    [id |-> id, userId |-> document.userId, dashboardConfig |-> document.dashboardConfig,
     datasetMetadata |-> document.datasetMetadata]

\* the listener of onSnapshot is called with the documents of the user,
\* latest first, once the store has taken one more of them
OnSnapshot(j) ==
    /\ Subscription # NoUser
    /\ writes[j].state = "saved"
    /\ writes[j].userId = Subscription
    /\ Len(savedDashboards) < MaxSaved
    /\ savedDashboards' =
         <<Fetched(ToString(Len(savedDashboards) + 1), writes[j])>> \o savedDashboards
    /\ writes' = [writes EXCEPT ![j].state = "listed"]
    /\ UNCHANGED <<datasetFile, reading, chartData, autoAnalysisResult, isLoading,
                   errorMessage, successMessage, userId, firebaseReady, dbInstance, runs>>
    /\ UNCHANGED <<currentPage, selectedSavedDashboardId, loadVars>>
    /\ UNCHANGED <<validateVars, statsVars, freqVars, tableVars>>

\* dashboard.datasetMetadata?.sample || []: no document has a sample
SampleOf(dashboard) == <<>>

\* handleSelectSavedDashboard for the card at position k of the list
SelectSavedDashboard(k) ==
    /\ currentPage = "dashboard"
    /\ autoAnalysisResult' = savedDashboards[k].dashboardConfig
    /\ chartData' = SampleOf(savedDashboards[k])
    /\ selectedSavedDashboardId' = savedDashboards[k].id
    /\ errorMessage' = ""
    /\ successMessage' = "Loaded dashboard: " \o savedDashboards[k].id
    /\ currentPage' = "generator"
    /\ UNCHANGED <<datasetFile, reading, isLoading, userId, firebaseReady, dbInstance,
                   runs, writes>>
    /\ UNCHANGED <<savedDashboards, loadVars>>
    /\ UNCHANGED <<validateVars, statsVars, freqVars, tableVars>>

\* the app with the page of the saved dashboards
NextSaved ==
    \/ Next
    \/ TogglePage
    \/ \E j \in 1..Len(writes) : OnSnapshot(j)
    \/ \E k \in 1..Len(savedDashboards) : SelectSavedDashboard(k)

SpecSaved == InitApp /\ [][NextSaved]_vars

\* the promises a run awaits settle: the fetch, and the reading of the body
\* of the response
Settles ==
    /\ WF_vars(\E i \in 1..Len(runs), outcome \in {"ok", "error status", "rejected"} :
                  FetchSettled(i, outcome))
    /\ WF_vars(\E i \in 1..Len(runs), outcome \in {"resolved", "rejected"} :
                  ErrorTextRead(i, outcome))
    /\ WF_vars(\E i \in 1..Len(runs), received \in ResponseBodies : BodyRead(i, received))

\* the app where a run starts once the writes of the runs before it have
\* settled
NextSettling ==
    \/ AppSteps
    \/ (\A j \in 1..Len(writes) : writes[j].state # "pending") /\ StartAnalysis

\* the app whose requests settle
SpecSettling == InitApp /\ [][NextSettling]_vars /\ Settles

\* the mount of the app with scripts that fail to load or do not define
\* their global object, up to the start of an analysis run
NextStartup ==
    \/ \E id \in Scripts, defined \in BOOLEAN : ScriptOnLoad(id, defined)
    \/ \E id \in Scripts : ScriptOnError(id)
    \/ \E user \in Users : OnAuthStateChanged(user)
    \/ SignInFailed
    \/ \E user \in LaterUsers : OnAuthStateChangedAgain(user)
    \/ SignedOut
    \/ \E file \in Files : reading = {} /\ SelectFile(file)
    \/ \E file \in Files : ReaderOnLoad(file)
    \/ StartAnalysis

SpecStartup == InitApp /\ [][NextStartup]_vars

\* the start of the app and the selection and the reading of files, over
\* more files
NextIngest ==
    \/ \E id \in Scripts, defined \in BOOLEAN : ScriptOnLoad(id, defined)
    \/ \E user \in Users : OnAuthStateChanged(user)
    \/ SignInFailed
    \/ \E file \in IngestFiles : SelectFile(file)
    \/ ClearFile
    \/ \E file \in IngestFiles : ReaderOnLoad(file)

SpecIngest == InitApp /\ [][NextIngest]_vars

\* ------------------------------------------------------------------------
\* Tables of descriptions drawn from bounded sets
\* ------------------------------------------------------------------------
MaxTables == 2

\* the descriptions the first position of a list ranges over: the three
\* types and an unknown one, with and without each of the parameters
TableDescriptions ==
    { TableDescription("Table 1", type, columns, column, groupByColumn, nValue) :
        type \in {"summary_statistics", "frequency_distribution", "top_n_values", "pivot"},
        columns \in {NoColumns, Columns(<<>>), Columns(<<"score", "ghost">>)},
        column \in {NoKey, "", "name"},
        groupByColumn \in {NoKey, "name"},
        nValue \in {NoValue, NValue(0), NValue(5)} }

\* the descriptions the later positions range over
MoreTableDescriptions ==
    { TableDescription("Names", "frequency_distribution", NoColumns, "name", NoKey, NoValue),
      TableDescription("Scores", "summary_statistics", Columns(<<"score">>), NoKey, NoKey,
                       NoValue) }

TableLists ==
    { <<d>> \o rest : d \in TableDescriptions,
                      rest \in SeqsUpTo(MoreTableDescriptions, MaxTables - 1) }

InitTables ==
    /\ tablesInput \in TableLists
    /\ tablesData \in {ScoresRows, LabelsRows}
    /\ tablesResult = <<>>
    /\ tablesDone = FALSE
    /\ ValidateIdle
    /\ StatsIdle
    /\ FreqIdle
    /\ AppIdle

\* const generatedTables = parsedDashboardConfig.tableDescriptions.map(...)
ComputeTables ==
    /\ ~tablesDone
    /\ tablesResult' = GenerateTables(tablesInput, tablesData)
    /\ tablesDone' = TRUE
    /\ UNCHANGED <<tablesInput, tablesData, validateVars, statsVars, freqVars, appVars>>

NextTables == ComputeTables

SpecTables == InitTables /\ [][NextTables]_vars

\* ------------------------------------------------------------------------
\* Properties of the statistics
\* ------------------------------------------------------------------------
\* the first 1000 records
SampledRows == 1..(IF Len(statsData) < 1000 THEN Len(statsData) ELSE 1000)

\* the sampled records whose value for the column converts to a number
ConvertibleRows(col) ==
    {i \in SampledRows : ~isNaN(parseFloat(Cell(statsData[i], col)))}

RequestedColumns == {statsCols[i] : i \in 1..Len(statsCols)}

ResultColumns == {statsResult[i][1] : i \in 1..Len(statsResult)}

\* a reported decimal in hundredths
Hundredths(d) == IF d.neg THEN -d.cents ELSE d.cents

\* C8: a requested column without any convertible value among the sampled records
\* has no entry in the result, and every other requested column has one.
C8_NoEntryWithoutValues ==
    statsDone =>
        \A col \in RequestedColumns :
            LET rows == ConvertibleRows(col)
            IN  /\ rows = {} => col \notin ResultColumns
                /\ rows # {} => col \in ResultColumns /\ Prop(statsResult, col).count > 0

C8_Witness ==
    /\ statsDone
    /\ statsCols = <<"name", "score", "absent">>
    /\ ConvertibleRows("name") = {}
    /\ Len(statsData) = 3
    /\ Cardinality(ConvertibleRows("score")) = 2
    /\ ResultColumns = {"score"}

\* C9: for every column of the result the reported values satisfy
\* min <= mean <= max and min <= median <= max.
C9_MeanAndMedianWithinExtrema ==
    statsDone =>
        \A k \in 1..Len(statsResult) :
            LET r == statsResult[k][2]
            IN  /\ Hundredths(r.min) <= Hundredths(r.mean)
                /\ Hundredths(r.mean) <= Hundredths(r.max)
                /\ Hundredths(r.min) <= Hundredths(r.median)
                /\ Hundredths(r.median) <= Hundredths(r.max)

\* Exact arithmetic for the statistics: integers of arbitrary size as a sign and
\* a magnitude, the values of a column as integer multiples of one power of two
ZInt(neg, mag) == [neg |-> neg /\ mag # <<>>, mag |-> mag]

ZAdd(a, b) ==
    IF a.neg = b.neg THEN ZInt(a.neg, BAdd(a.mag, b.mag))
    ELSE IF BCmp(a.mag, b.mag) >= 0 THEN ZInt(a.neg, BSub(a.mag, b.mag))
    ELSE ZInt(b.neg, BSub(b.mag, a.mag))

\* -1, 0, 1 as a <, =, > b
ZCmp(a, b) ==
    IF a.neg /\ ~b.neg THEN -1
    ELSE IF ~a.neg /\ b.neg THEN 1
    ELSE IF a.neg THEN BCmp(b.mag, a.mag) ELSE BCmp(a.mag, b.mag)

RECURSIVE ZSum(_, _)
\* the sum of the first k integers of a sequence
ZSum(ints, k) == IF k = 0 THEN ZInt(FALSE, <<>>) ELSE ZAdd(ZSum(ints, k - 1), ints[k])

RECURSIVE SumOfSquares(_, _)
\* the sum of the squares of the first k integers of a sequence
SumOfSquares(ints, k) ==
    IF k = 0 THEN <<>>
    ELSE BAdd(SumOfSquares(ints, k - 1), BMul(ints[k].mag, ints[k].mag))

\* the Numbers of a column: the converted values of the convertible sampled
\* records, in the order of the records
ColumnNumbers(col) ==
    LET rows == ConvertibleRows(col)
        nth(k) == CHOOSE i \in rows : Cardinality({j \in rows : j <= i}) = k
    IN  [k \in 1..Cardinality(rows) |-> parseFloat(Cell(statsData[nth(k)], col))]

\* the least exponent of the Numbers
LeastExponent(numbers) ==
    CHOOSE x \in {numbers[i].e : i \in 1..Len(numbers)} :
        \A i \in 1..Len(numbers) : x <= numbers[i].e

\* the Numbers as integer multiples of 2^x
Multiples(numbers, x) ==
    [i \in 1..Len(numbers) |-> ZInt(numbers[i].neg, BShl(numbers[i].m, numbers[i].e - x))]

\* 2^x for x > 0, else 1
PowerOfTwo(x) == IF x > 0 THEN BShl(<<1>>, x) ELSE <<1>>

\* the k-th smallest of the integers
KthSmallest(ints, k) ==
    ints[CHOOSE i \in 1..Len(ints) :
            /\ Cardinality({j \in 1..Len(ints) : ZCmp(ints[j], ints[i]) < 0}) < k
            /\ k <= Cardinality({j \in 1..Len(ints) : ZCmp(ints[j], ints[i]) <= 0})]

\* the reported decimal d is the hundredth nearest to z / den, on a tie the one
\* of larger magnitude
IsNearestHundredth(d, z, den) ==
    LET twice  == BMulSmall(BFromInt(d.cents), 2)
        scaled == BMulSmall(z.mag, 200)
    IN  /\ d.t = "dec"
        /\ BCmp(BMul(twice, den), BAdd(scaled, den)) <= 0
        /\ BCmp(scaled, BMul(BAdd(twice, <<1>>), den)) < 0
        /\ d.cents > 0 => d.neg = z.neg

\* the reported decimal d is the hundredth nearest to the square root of num / den
IsNearestHundredthOfRoot(d, num, den) ==
    LET twice  == BMulSmall(BFromInt(d.cents), 2)
        above  == BAdd(twice, <<1>>)
        scaled == BMulSmall(BMulSmall(num, 200), 200)
    IN  /\ d.t = "dec"
        /\ d.cents > 0 =>
              LET below == BSub(twice, <<1>>)
              IN  BCmp(BMul(BMul(below, below), den), scaled) <= 0
        /\ BCmp(scaled, BMul(BMul(above, above), den)) < 0

\* the mean of the entry is the arithmetic mean of the integers ints, which are
\* the column's values in units of 2^x
IsExactMean(entry, ints, x) ==
    LET sum == ZSum(ints, Len(ints))
    IN  IsNearestHundredth(entry.mean, ZInt(sum.neg, BMul(sum.mag, PowerOfTwo(x))),
                           BMul(BFromInt(Len(ints)), PowerOfTwo(-x)))

\* min and max of the entry are the extrema of the integers
IsExactExtrema(entry, ints, x) ==
    LET least    == KthSmallest(ints, 1)
        greatest == KthSmallest(ints, Len(ints))
    IN  /\ IsNearestHundredth(entry.min, ZInt(least.neg, BMul(least.mag, PowerOfTwo(x))),
                              PowerOfTwo(-x))
        /\ IsNearestHundredth(entry.max,
                              ZInt(greatest.neg, BMul(greatest.mag, PowerOfTwo(x))),
                              PowerOfTwo(-x))

\* the median of the entry is the middle one of the integers in ascending order,
\* the average of the two middle ones for an even count
IsExactMedian(entry, ints, x) ==
    LET middle == ZAdd(KthSmallest(ints, (Len(ints) + 1) \div 2),
                       KthSmallest(ints, Len(ints) \div 2 + 1))
    IN  IsNearestHundredth(entry.median, ZInt(middle.neg, BMul(middle.mag, PowerOfTwo(x))),
                           BMulSmall(PowerOfTwo(-x), 2))

\* stdDev of the entry is the population standard deviation of the integers:
\* the root of (n * sum of squares - square of the sum) / n^2
IsExactStdDev(entry, ints, x) ==
    LET count  == BFromInt(Len(ints))
        sum    == ZSum(ints, Len(ints))
        spread == BSub(BMul(count, SumOfSquares(ints, Len(ints))), BMul(sum.mag, sum.mag))
    IN  IsNearestHundredthOfRoot(entry.stdDev,
                                 BMul(spread, BMul(PowerOfTwo(x), PowerOfTwo(x))),
                                 BMul(BMul(count, count),
                                      BMul(PowerOfTwo(-x), PowerOfTwo(-x))))

\* the result for the records score = 10, 20, 30
ExampleEntry ==
    [mean   |-> [t |-> "dec", neg |-> FALSE, cents |-> 2000],
     median |-> [t |-> "dec", neg |-> FALSE, cents |-> 2000],
     min    |-> [t |-> "dec", neg |-> FALSE, cents |-> 1000],
     max    |-> [t |-> "dec", neg |-> FALSE, cents |-> 3000],
     stdDev |-> [t |-> "dec", neg |-> FALSE, cents |-> 816],
     count  |-> 3]

\* C10: for every column of the result, count is the number of sampled records
\* whose value converts to a number, mean is the arithmetic mean of those values,
\* min and max are their extrema, median is the middle of their ascending sort
\* (the average of the two middle ones for an even count) and stdDev is their
\* population standard deviation, each reported to the nearest hundredth; and the
\* records score = 10, 20, 30 give mean 20.00, median 20.00, min 10.00,
\* max 30.00, stdDev 8.16, count 3.
C10_ExactStatistics ==
    statsDone =>
        /\ \A i \in 1..Len(statsResult) :
              LET entry   == statsResult[i][2]
                  numbers == ColumnNumbers(statsResult[i][1])
                  x       == LeastExponent(numbers)
                  ints    == Multiples(numbers, x)
              IN  /\ entry.count = Cardinality(ConvertibleRows(statsResult[i][1]))
                  /\ entry.count <= Cardinality(SampledRows)
                  /\ entry.count > 0
                  /\ \A k \in 1..Len(numbers) : numbers[k].cls = "num"
                  /\ IsExactMean(entry, ints, x)
                  /\ IsExactExtrema(entry, ints, x)
                  /\ IsExactMedian(entry, ints, x)
                  /\ IsExactStdDev(entry, ints, x)
        /\ statsData = ExampleDataset =>
              /\ "score" \in ResultColumns
              /\ Prop(statsResult, "score") = ExampleEntry

\* ------------------------------------------------------------------------
\* Properties of the validation pass
\* ------------------------------------------------------------------------
\* the dataset's column set: the keys of the first record
KnownColumns == {knownRecord[i][1] : i \in 1..Len(knownRecord)}

\* the positions of the first record whose value converts to a number
NumericPositions == {i \in 1..Len(knownRecord) : ~isNaN(parseFloat(knownRecord[i][2]))}

\* the p-th numeric column in the order of the first record's keys
NthNumericColumn(numeric, p) ==
    knownRecord[CHOOSE i \in numeric : Cardinality({j \in numeric : j <= i}) = p][1]

ValidPositions(chart) ==
    {j \in 1..Len(chart.dataLinesOrBarsOrAreas) :
        chart.dataLinesOrBarsOrAreas[j].dataKey \in KnownColumns}

AllInvalid(chart) == Len(chart.dataLinesOrBarsOrAreas) > 0 /\ ValidPositions(chart) = {}

AllValid(chart) == Cardinality(ValidPositions(chart)) = Len(chart.dataLinesOrBarsOrAreas)

SomeButNotAllValid(chart) == ValidPositions(chart) # {} /\ ~AllValid(chart)

\* the positions of the input charts that have only invalid references while
\* the dataset has no numeric column
Unrepairable ==
    IF NumericPositions # {} THEN {}
    ELSE {i \in 1..Len(inputCharts) : AllInvalid(inputCharts[i])}

\* the position in the output of the input chart at position i, were exactly
\* the charts at the positions gone removed
OutputPosition(gone, i) == Cardinality({j \in 1..i : j \notin gone})

HasOutput(gone, i) == i \notin gone /\ OutputPosition(gone, i) <= Len(firstPass)

WithoutSeries(chart) == [chart EXCEPT !.dataLinesOrBarsOrAreas = <<>>]

AxisColumns(axis) ==
    IF axis.absent \/ axis.dataKey = NoKey \/ axis.dataKey = "" THEN {} ELSE {axis.dataKey}

ReferencedColumns(chart) ==
    {chart.dataLinesOrBarsOrAreas[j].dataKey : j \in 1..Len(chart.dataLinesOrBarsOrAreas)}
        \cup AxisColumns(chart.xAxis) \cup AxisColumns(chart.yAxis)

\* C1: after the validation pass every column referenced by a kept chart's series
\* bindings, x axis and y axis is a column of the dataset (a key of the first record).
C1_ReferencedColumnsKnown ==
    passes = 1 =>
        \A i \in 1..Len(validated) : ReferencedColumns(validated[i]) \subseteq KnownColumns

\* C2: a chart whose bindings are all invalid gets, when the first record has a
\* numeric column, bindings over the first min(2, n) numeric columns in key order,
\* typed after the chart type, stroke and fill the first colour or the fallback
\* colour, activeDot true.
C2_FallbackSeries ==
    passes = 1 =>
        LET numeric == NumericPositions
            n       == Cardinality(numeric)
        IN  numeric # {} =>
            \A i \in 1..Len(inputCharts) :
                AllInvalid(inputCharts[i]) =>
                    /\ HasOutput({}, i)
                    /\ LET in     == inputCharts[i]
                           out    == firstPass[i].dataLinesOrBarsOrAreas
                           colour == IF in.colors # <<>> /\ in.colors[1] # ""
                                     THEN in.colors[1] ELSE "#8884d8"
                       IN  /\ Len(out) = IF n < 2 THEN n ELSE 2
                           /\ \A p \in 1..Len(out) :
                                /\ out[p].dataKey = NthNumericColumn(numeric, p)
                                /\ out[p].type = CASE in.chartType = "BarChart" -> "bar"
                                                   [] in.chartType = "AreaChart" -> "area"
                                                   [] OTHER -> "line"
                                /\ out[p].stroke = colour
                                /\ out[p].fill = colour
                                /\ out[p].activeDot = TRUE

C2_Witness ==
    /\ passes = 1
    /\ Cardinality(NumericPositions) = 3
    /\ \E i \in 1..Len(inputCharts) :
        /\ AllInvalid(inputCharts[i])
        /\ inputCharts[i].chartType = "BarChart"
        /\ inputCharts[i].colors = <<>>
        /\ HasOutput({}, i)
        /\ Len(firstPass[i].dataLinesOrBarsOrAreas) = 2
        /\ firstPass[i].dataLinesOrBarsOrAreas[2].dataKey = "y"
        /\ firstPass[i].dataLinesOrBarsOrAreas[2].type = "bar"

\* C3: a chart whose bindings are all invalid is not emitted when the first record
\* has no numeric column; the output is the input list with exactly such charts
\* removed, the remaining charts in their order.
C3_UnrepairableDropped ==
    passes = 1 =>
        LET gone == Unrepairable
        IN  /\ Len(firstPass) = Len(inputCharts) - Cardinality(gone)
            /\ \A i \in 1..Len(inputCharts) :
                i \notin gone =>
                    /\ HasOutput(gone, i)
                    /\ LET in  == inputCharts[i]
                           out == firstPass[OutputPosition(gone, i)]
                       IN  /\ out.title = in.title
                           /\ out.chartType = in.chartType
                           /\ out.yAxis = in.yAxis
                           /\ out.colors = in.colors
                           /\ gone # {} => WithoutSeries(out) = WithoutSeries(in)

C3_Witness ==
    /\ passes = 1
    /\ Len(inputCharts) = 3
    /\ Unrepairable = {2}
    /\ Len(firstPass) = 2
    /\ firstPass[1].title = inputCharts[1].title
    /\ firstPass[2].title = inputCharts[3].title

\* C4: a chart of which some but not all bindings name a known column is kept with
\* exactly the sub-sequence of its valid bindings, unmodified and in order, and
\* with every other field unchanged.
C4_PartialRepair ==
    passes = 1 =>
        LET gone == Unrepairable
        IN  \A i \in 1..Len(inputCharts) :
                SomeButNotAllValid(inputCharts[i]) =>
                    /\ HasOutput(gone, i)
                    /\ LET in  == inputCharts[i]
                           out == firstPass[OutputPosition(gone, i)]
                           ok  == ValidPositions(in)
                       IN  /\ WithoutSeries(out) = WithoutSeries(in)
                           /\ Len(out.dataLinesOrBarsOrAreas) = Cardinality(ok)
                           /\ \A j \in ok :
                                out.dataLinesOrBarsOrAreas[Cardinality({k \in ok : k <= j})]
                                    = in.dataLinesOrBarsOrAreas[j]

C4_Witness ==
    /\ passes = 1
    /\ Len(inputCharts) >= 1
    /\ inputCharts[1].dataLinesOrBarsOrAreas = <<Binding("ghost"), Binding("x")>>
    /\ "x" \in KnownColumns
    /\ Len(firstPass) >= 1
    /\ firstPass[1].dataLinesOrBarsOrAreas = <<Binding("x")>>

\* C5: validating a validated chart list again, against the same record, returns
\* the list unchanged.
C5_Idempotent == passes = 2 => validated = firstPass

C5_Witness ==
    /\ passes = 2
    /\ validated = firstPass
    /\ NumericPositions # {}
    /\ \E i \in 1..Len(inputCharts) : AllInvalid(inputCharts[i])
    /\ \E i \in 1..Len(inputCharts) : SomeButNotAllValid(inputCharts[i])

\* C6: a chart all of whose bindings name known columns is returned with every
\* field unchanged.
C6_ValidUnchanged ==
    passes = 1 =>
        LET gone == Unrepairable
        IN  \A i \in 1..Len(inputCharts) :
                AllValid(inputCharts[i]) =>
                    /\ HasOutput(gone, i)
                    /\ firstPass[OutputPosition(gone, i)] = inputCharts[i]

C6_Witness ==
    /\ passes = 1
    /\ Len(inputCharts) >= 2
    /\ AllValid(inputCharts[2])
    /\ ~AllValid(inputCharts[1])
    /\ Len(inputCharts[2].dataLinesOrBarsOrAreas) = 2
    /\ Len(firstPass) >= 2
    /\ firstPass[2] = inputCharts[2]

\* ------------------------------------------------------------------------
\* Properties of the sample
\* ------------------------------------------------------------------------
\* the first 1000 records of a dataset
First1000(data) == SubSeq(data, 1, IF Len(data) < 1000 THEN Len(data) ELSE 1000)

\* C11: the statistics and the frequencies of a dataset, for the requested
\* column list, are those of its first 1000 records alone; two datasets with
\* the same first 1000 records therefore have equal results.
C11_OnlyFirst1000 ==
    /\ statsDone =>
          statsResult = getDescriptiveStatistics(First1000(statsData), statsCols)
    /\ freqDone =>
          freqResult = getFrequencyDistribution(First1000(freqData), freqCols)

\* both operations were applied to a dataset of more than 1000 records whose
\* record 1001 has values that record 1000 does not have
C11_Witness ==
    /\ statsDone
    /\ freqDone
    /\ Len(statsData) > 1000
    /\ statsData[1001] # statsData[1000]
    /\ statsResult # <<>>
    /\ freqResult # <<>>

\* ------------------------------------------------------------------------
\* Properties of the frequencies
\* ------------------------------------------------------------------------
\* the sampled records of the frequency harness
FreqSampled == 1..(IF Len(freqData) < 1000 THEN Len(freqData) ELSE 1000)

\* the sampled records whose value for the column is absent, null or empty
FreqBlank(col) ==
    {i \in FreqSampled : Cell(freqData[i], col) \in {Undefined, Null, Str(<<>>)}}

\* the sampled records that hold the given value for the column
FreqHolding(col, value) ==
    {i \in FreqSampled : Cell(freqData[i], col) = value}

RECURSIVE SumOver(_, _)
\* the sum of the counts of the given keys
SumOver(counts, keys) ==
    IF keys = {} THEN 0
    ELSE LET k == CHOOSE x \in keys : TRUE
         IN  counts[k].n + SumOver(counts, keys \ {k})

\* the counts are numbers that sum to the sampled records less the blank ones
CountsSumTo(counts, expected) ==
    /\ \A k \in DOMAIN counts : counts[k].t = "number"
    /\ SumOver(counts, DOMAIN counts) = expected

\* C12: for every requested column the counts sum to the number of sampled
\* records less those whose value is absent, null or the empty text, and each
\* remaining value maps to the number of sampled records that hold it.
C12_CountsExact ==
    freqDone =>
        \A c \in 1..Len(freqCols) :
            /\ HasKey(freqResult, freqCols[c])
            /\ CountsSumTo(Prop(freqResult, freqCols[c]),
                           Cardinality(FreqSampled \ FreqBlank(freqCols[c])))
            /\ \A i \in FreqSampled \ FreqBlank(freqCols[c]) :
                  /\ Cell(freqData[i], freqCols[c]).s
                        \in DOMAIN Prop(freqResult, freqCols[c])
                  /\ Prop(freqResult, freqCols[c])[Cell(freqData[i], freqCols[c]).s]
                        = Count(Cardinality(FreqHolding(freqCols[c],
                                                        Cell(freqData[i], freqCols[c]))))

\* ------------------------------------------------------------------------
\* Properties of the values that enter the statistics
\* ------------------------------------------------------------------------
\* the value is text that is a decimal numeral from its first character to
\* its last: a sign or none, digits, and a fraction or none
IsNumericText(v) ==
    /\ v.t = "string"
    /\ \E k \in 1..Len(v.s) : IsDigit(v.s[k])
    /\ \A k \in 1..Len(v.s) :
          \/ IsDigit(v.s[k])
          \/ v.s[k] = "." /\ k > 1 /\ k < Len(v.s)
          \/ v.s[k] \in {"-", "+"} /\ k = 1

\* the sampled records whose value for the column is a numeral
NumeralRows(col) ==
    {i \in SampledRows : IsNumericText(Cell(statsData[i], col))}

\* the reported number is a decimal with two fractional digits
IsFiniteDecimal(reported) == reported.t = "dec"

\* C13: the statistics of a column count exactly the sampled values that are
\* numerals, a column without such values has no entry, and every reported
\* mean, median, min, max and stdDev is a finite decimal.
C13_OnlyFiniteNumbers ==
    statsDone =>
        \A c \in 1..Len(statsCols) :
            IF NumeralRows(statsCols[c]) = {}
            THEN ~HasKey(statsResult, statsCols[c])
            ELSE /\ HasKey(statsResult, statsCols[c])
                 /\ Prop(statsResult, statsCols[c]).count
                        = Cardinality(NumeralRows(statsCols[c]))
                 /\ IsFiniteDecimal(Prop(statsResult, statsCols[c]).mean)
                 /\ IsFiniteDecimal(Prop(statsResult, statsCols[c]).median)
                 /\ IsFiniteDecimal(Prop(statsResult, statsCols[c]).min)
                 /\ IsFiniteDecimal(Prop(statsResult, statsCols[c]).max)
                 /\ IsFiniteDecimal(Prop(statsResult, statsCols[c]).stdDev)

\* ------------------------------------------------------------------------
\* Properties of the tables
\* ------------------------------------------------------------------------
\* the data is an array of exactly one element, the note
IsSingleNote(tableData) == tableData.kind = "array" /\ Len(tableData.value) = 1

\* C14: a description of type top_n_values gets data that is an array of
\* exactly one element, the note, whichever of columns, groupByColumn and
\* nValue it has, nValue 0 included.
C14_TopNAlwaysNote ==
    tablesDone =>
        \A i \in 1..Len(tablesInput) :
            tablesInput[i].type = "top_n_values" => IsSingleNote(tablesResult[i].data)

\* the description has none of the three types, or lacks the parameter of
\* its type
LacksKindOrParameter(tableDesc) ==
    \/ tableDesc.type \notin {"summary_statistics", "frequency_distribution", "top_n_values"}
    \/ tableDesc.type = "summary_statistics" /\ ~tableDesc.columns.present
    \/ tableDesc.type = "frequency_distribution" /\ tableDesc.column = NoKey

\* C15: a description of none of the three types, or without the parameter
\* of its type, gets a table whose data is absent, and the rendering shows
\* that there is no data.
C15_OtherKindsNoData ==
    tablesDone =>
        \A i \in 1..Len(tablesInput) :
            LacksKindOrParameter(tablesInput[i])
            => /\ ~IsTruthyData(tablesResult[i].data)
               /\ (NoDataHeader(tablesResult[i]) \/ NoDataParagraph(tablesResult[i]))

\* the fields of the description are those of the table
SameDescription(table, tableDesc) ==
    /\ table.title = tableDesc.title
    /\ table.type = tableDesc.type
    /\ table.columns = tableDesc.columns
    /\ table.column = tableDesc.column
    /\ table.groupByColumn = tableDesc.groupByColumn
    /\ table.nValue = tableDesc.nValue

\* C16: there is one table for each description, in the same order and with
\* the fields of the description; a summary_statistics description with a
\* columns list gets the statistics of those columns, a
\* frequency_distribution description with a column gets the frequencies of
\* that column alone.
C16_Dispatch ==
    tablesDone =>
        /\ Len(tablesResult) = Len(tablesInput)
        /\ \A i \in 1..Len(tablesInput) :
              /\ SameDescription(tablesResult[i], tablesInput[i])
              /\ (tablesInput[i].type = "summary_statistics"
                    /\ tablesInput[i].columns.present)
                 => /\ tablesResult[i].data.kind = "statistics"
                    /\ tablesResult[i].data.value
                         = getDescriptiveStatistics(tablesData, tablesInput[i].columns.items)
              /\ (tablesInput[i].type = "frequency_distribution"
                    /\ tablesInput[i].column \notin {NoKey, ""})
                 => /\ tablesResult[i].data.kind = "distributions"
                    /\ tablesResult[i].data.value
                         = getFrequencyDistribution(tablesData, <<tablesInput[i].column>>)

\* the tables of a list of two descriptions were generated, the first with
\* statistics of a column that has numbers, the second with frequencies
C16_Witness ==
    /\ tablesDone
    /\ Len(tablesResult) = 2
    /\ tablesResult[1].data.kind = "statistics"
    /\ tablesResult[1].data.value # <<>>
    /\ tablesResult[2].data.kind = "distributions"
    /\ HasCounts(tablesResult[2])

\* ------------------------------------------------------------------------
\* Properties of the x axis of the fallback
\* ------------------------------------------------------------------------
\* the chart came without a binding of its x axis, or with an empty one
LacksXAxis(chart) == AxisColumns(chart.xAxis) = {}

Loads(file) == file \in reading /\ reading' = reading \ {file}

\* C17: when the file read has a type that is neither text/csv nor
\* application/json, the handler sets the message of the unsupported type and
\* leaves the dataset empty, and in the state it leaves no analysis can be
\* started.
C17_UnsupportedRejected ==
    [][\A file \in Files :
          (Loads(file) /\ file.type \notin {"text/csv", "application/json"})
          => /\ errorMessage'
                  = "Error parsing dataset: Unsupported file type. Please upload a CSV or JSON file."
             /\ chartData' = <<>>
             /\ ~CanAnalyze']_vars

\* a file of another type was read after a user had signed in: its name is
\* shown, the dataset is empty and the message is set
C17_Witness ==
    /\ datasetFile # null
    /\ datasetFile.type = "text/plain"
    /\ reading = {}
    /\ firebaseReady
    /\ chartData = <<>>
    /\ errorMessage
         = "Error parsing dataset: Unsupported file type. Please upload a CSV or JSON file."

\* the parsed content is an array of at least one object
IsNonEmptyArrayOfObjects(parsed) == parsed.kind = "array" /\ Len(parsed.rows) > 0

\* C18: when a JSON file is read the dataset is set and the success message
\* shown only if the content is a non-empty array of objects; for any other
\* content an error message of the parsing is set and the dataset is empty.
C18_JsonOnlyArraysOfObjects ==
    [][\A file \in IngestFiles :
          (Loads(file) /\ file.type = "application/json")
          => IF IsNonEmptyArrayOfObjects(file.parsed)
             THEN /\ chartData' = file.parsed.rows
                  /\ successMessage' = "Dataset parsed successfully! Ready for analysis."
             ELSE /\ chartData' = <<>>
                  /\ errorMessage'
                       \in {"Error parsing dataset: Dataset is empty or malformed.",
                            "Error parsing dataset: Unexpected token"}]_vars

\* C26: once no FileReader is reading any more, the dataset is the one
\* parsed from the file selected last, the file whose name is shown.
C26_LastSelectedFileWins ==
    (reading = {} /\ datasetFile # null /\ ParseError(datasetFile) = "")
        => chartData = datasetFile.parsed.rows

\* C27: every reading of a file that ends with an error leaves the dataset
\* empty and an error message set; so, once nothing is being read, a dataset
\* that can be analysed is the dataset of the file whose name is shown.
C27_FailedIngestionEmptiesDataset ==
    [][/\ \A file \in IngestFiles :
             (Loads(file) /\ LoadError(file, windowGlobals) # "")
             => chartData' = <<>> /\ errorMessage' # ""
       /\ (CanAnalyze' /\ reading' = {})
             => (ParseError(datasetFile') = "" /\ chartData' = datasetFile'.parsed.rows)]_vars

\* ------------------------------------------------------------------------
\* Properties of the start of the app
\* ------------------------------------------------------------------------
\* C28: initializeApp is called at most once, and only when the load
\* callbacks of all four scripts have run, in whatever order they run; once
\* the load of a script has failed the instances are never set, the ready
\* flag is never true, no run has passed the entry guard and none can.
C28_InitializedOnceAfterAllScripts ==
    /\ appInstances <= 1
    /\ dbInstance <=> appInstances = 1
    /\ dbInstance => scriptLoadStatus = Scripts
    /\ scriptsFailed # {} =>
          /\ ~dbInstance
          /\ ~firebaseReady
          /\ runs = <<>>
          /\ EntryError # ""
          /\ ~CanAnalyze

\* the parser failed to load after the three other scripts had loaded, and
\* a dataset is there to analyse
C28_Witness ==
    /\ scriptsFailed = {"papaparse"}
    /\ scriptLoadStatus = Scripts \ {"papaparse"}
    /\ windowGlobals = scriptLoadStatus
    /\ datasetFile # null
    /\ Len(chartData) > 0
    /\ ~dbInstance

\* C29: the ready flag is true only with a user; the user and the flag are
\* set only by the listener called with a user and are never taken back,
\* also when the listener is called without a user later; so no run has
\* started, and no subscription to the saved dashboards is made, without a
\* user.
C29_ReadyImpliesUser ==
    [][/\ firebaseReady' => userId' # NoUser
       /\ userId # NoUser => userId' # NoUser
       /\ firebaseReady => firebaseReady'
       /\ (userId' # userId \/ firebaseReady' # firebaseReady)
             => (userId' \in LaterUsers /\ firebaseReady')
       /\ \A i \in 1..Len(runs') : runs'[i].userId # NoUser
       /\ Subscription' # NoUser => Subscription' = userId']_vars

\* a run was started by a signed-in user, and the listener was called
\* without a user afterwards
C29_Witness ==
    /\ userId \in Users
    /\ firebaseReady
    /\ Subscription = userId
    /\ runs # <<>>
    /\ runs[1].userId = userId
    /\ errorMessage = "Firebase sign-in failed. Data saving will not work."

\* ------------------------------------------------------------------------
\* Properties of the analysis run
\* ------------------------------------------------------------------------
\* the columns of the dataset the run works on
RunColumns(run) == {run.dataKeys[k] : k \in 1..Len(run.dataKeys)}

\* a series binding of the chart names a column the dataset does not have
NamesUnknownColumn(chart, columns) ==
    \E k \in 1..Len(chart.dataLinesOrBarsOrAreas) :
        chart.dataLinesOrBarsOrAreas[k].dataKey \notin columns

\* the charts of the list that show the chart of the given title
ChartsTitled(charts, title) ==
    {k \in 1..Len(charts) : charts[k].title = title}

\* the chart of the given title is not in the list, or it is there with
\* series bindings that all name columns of the dataset
RepairedOrDropped(charts, title, columns) ==
    \A k \in ChartsTitled(charts, title) :
        /\ Len(charts[k].dataLinesOrBarsOrAreas) > 0
        /\ ~NamesUnknownColumn(charts[k], columns)

\* the run received a configuration in which a series binding names an
\* unknown column
ReceivedUnknownColumns(run) ==
    /\ run.received.kind = "config"
    /\ \E k \in 1..Len(run.received.config.charts) :
          NamesUnknownColumn(run.received.config.charts[k], RunColumns(run))

\* C7: when a run reads a configuration whose series bindings name columns
\* that are not in the dataset, the step that validates the charts sets no
\* error message and does not end the run in an error state: the run goes on
\* to generate the tables and shows a configuration in which every affected
\* chart is repaired or dropped.
C7_ValidationNeverFails ==
    [][\A i \in 1..Len(runs) :
          (runs[i].pc = "json" /\ runs'[i].pc = "done" /\ ReceivedUnknownColumns(runs'[i]))
          => /\ runs'[i].exit = "generated"
             /\ errorMessage' = errorMessage
             /\ autoAnalysisResult' # null
             /\ Len(autoAnalysisResult'.tables)
                  = Len(runs'[i].received.config.tableDescriptions)
             /\ \A k \in 1..Len(runs'[i].received.config.charts) :
                   NamesUnknownColumn(runs'[i].received.config.charts[k],
                                      RunColumns(runs'[i]))
                   => RepairedOrDropped(autoAnalysisResult'.charts,
                                        runs'[i].received.config.charts[k].title,
                                        RunColumns(runs'[i]))]_vars

\* the run received a chart that names an unknown column, and the chart is
\* among the charts or not
ReceivedAndShown(run, charts, shown) ==
    \E k \in 1..Len(run.received.config.charts) :
        /\ NamesUnknownColumn(run.received.config.charts[k], RunColumns(run))
        /\ (ChartsTitled(charts, run.received.config.charts[k].title) # {}) = shown

\* a run that received unknown columns has returned with a dashboard on
\* display in which one affected chart is repaired and another is dropped,
\* the tables are generated and no error message is set
C7_Witness ==
    /\ Len(runs) > 0
    /\ runs[Len(runs)].pc = "done"
    /\ runs[Len(runs)].exit = "generated"
    /\ ReceivedUnknownColumns(runs[Len(runs)])
    /\ errorMessage = ""
    /\ ~isLoading
    /\ autoAnalysisResult # null
    /\ ReceivedAndShown(runs[Len(runs)], autoAnalysisResult.charts, TRUE)
    /\ ReceivedAndShown(runs[Len(runs)], autoAnalysisResult.charts, FALSE)
    /\ Len(autoAnalysisResult.tables) > 0

\* run i returns in this step, and exit is how
Ends(i, exit) ==
    /\ i \in 1..Len(runs)
    /\ runs[i].pc # "done"
    /\ Len(runs') = Len(runs)
    /\ runs'[i].pc = "done"
    /\ runs'[i].exit = exit

IsFileOf(file, data) == ParseError(file) = "" /\ file.parsed.rows = data

\* the document the step adds to the writes
Written == writes'[Len(writes')]

\* the step adds one document, under the identity of the run, with the
\* config that is displayed and the keys of the first record of the run
WritesOnce(run) ==
    /\ Len(writes') = Len(writes) + 1
    /\ \A j \in 1..Len(writes) : writes'[j] = writes[j]
    /\ Written.userId = run.userId
    /\ Written.userId = userId
    /\ Written.userId # NoUser
    /\ Written.dashboardConfig = autoAnalysisResult'
    /\ Written.datasetMetadata.keys = ObjectKeys(run.chartData[1])

\* C20: when a run that has a user, the flag and the database ends with a
\* config, the step adds exactly one document, under the identity of that
\* user, whose dashboardConfig is the result that is displayed, whose keys
\* are those of the first record the run started with, and whose name is
\* the name of the file that dataset was parsed from.
C20_OneWritePerGeneratedRun ==
    [][\A i \in 1..Len(runs) :
          (Ends(i, "generated") /\ CanSave(runs[i]))
          => /\ WritesOnce(runs[i])
             /\ \E file \in Files :
                   /\ IsFileOf(file, runs[i].chartData)
                   /\ Written.datasetMetadata.name = file.name]_vars

\* the runs that have not returned
InFlight == {i \in 1..Len(runs) : runs[i].pc # "done"}

\* C22: a run in flight does not keep a second run from starting: while a
\* run is in flight the button that starts a run is enabled whenever a
\* dataset, its file and the ready flag are there.
C22_SecondRunCanStart ==
    (/\ InFlight # {}
     /\ currentPage = "generator"
     /\ datasetFile # null
     /\ firebaseReady
     /\ Len(chartData) > 0)
    => CanAnalyze

\* C24: isLoading is true exactly while a run is in flight; when the promises
\* the run awaits settle, the flag is reset whatever the exit of the run;
\* the flag is reset by nothing but the end of a run, and while it is true
\* no file can be selected and no run started.
C24_LoadingWhileInFlight ==
    /\ [](isLoading <=> InFlight # {})
    /\ [](isLoading => ~CanAnalyze /\ ~ENABLED (\E file \in Files : SelectFile(file)))
    /\ [][(isLoading /\ ~isLoading') => \E i \in InFlight : runs'[i].pc = "done"]_vars
    /\ (isLoading ~> ~isLoading)

\* a run ended in the catch block, and the flag is reset
C24_Witness ==
    /\ Len(runs) = 1
    /\ runs[1].pc = "done"
    /\ runs[1].exit = "thrown"
    /\ errorMessage = "An unexpected error occurred"
    /\ ~isLoading

\* the configuration is rendered: autoAnalysisResult && chartData.length > 0
\* on the generator page
OutputShown ==
    currentPage = "generator" /\ autoAnalysisResult # null /\ Len(chartData) > 0

\* C25: the reading of a file that gives a dataset replaces the dataset and
\* leaves the configuration on display as it is, and so does the selection
\* of a file; the selection of no file clears it.
C25_NewDatasetKeepsDashboard ==
    [][/\ \A file \in Files :
             (Loads(file) /\ ParseError(file) = "")
             => /\ chartData' = file.parsed.rows
                /\ autoAnalysisResult' = autoAnalysisResult
       /\ (datasetFile' # datasetFile /\ datasetFile' # null)
             => autoAnalysisResult' = autoAnalysisResult
       /\ (datasetFile' # datasetFile /\ datasetFile' = null)
             => autoAnalysisResult' = null]_vars

\* the dashboard on display was generated by a run over another dataset
\* than the one that is loaded now
C25_Witness ==
    /\ OutputShown
    /\ reading = {}
    /\ Len(runs) = 1
    /\ runs[1].exit = "generated"
    /\ autoAnalysisResult = ProcessConfig(runs[1].received.config, runs[1].chartData)
    /\ runs[1].chartData = ScoresRows
    /\ chartData = LabelsRows

\* the write at position j is rejected in this step
SaveFails(j) ==
    /\ j \in 1..Len(writes)
    /\ writes[j].state = "pending"
    /\ Len(writes') = Len(writes)
    /\ writes'[j].state = "failed"

C21_SavedDashboardShown ==
    [][\A k \in 1..Len(savedDashboards) :
          SelectSavedDashboard(k)
          => /\ autoAnalysisResult' = savedDashboards[k].dashboardConfig
             /\ currentPage' = "generator"
             /\ OutputShown']_vars

====
